---- MODULE Spec2Model ----
(***************************************************************************)
(* Model of the podKube gateway: the pod mapper and the pod and secret    *)
(* storage (pkg/storage), the watch loop (pkg/server watchPods), the       *)
(* stream-multiplexed exec session (pkg/server handleSPDYExec) and the log *)
(* and plain exec handlers (pkg/server handlePodLogs, handlePodExec).      *)
(*                                                                         *)
(* Strings that the code splits, truncates or concatenates (names,         *)
(* container ids, selectors, pod keys) are sequences of tokens; a token is *)
(* a run of characters the code never looks inside.                        *)
(***************************************************************************)
EXTENDS Integers, Sequences, FiniteSets, TLC

\* ------------------------------------------------------------------ bounds
MaxRestarts == 1
\* streams a client opens on one exec connection
MaxStreams == 4
\* containers podman ps reports to one List call
MaxListed == 2
\* containers in the spec of a pod to create
MaxContainers == 2
\* data entries of a secret to create
MaxDataEntries == 2
\* chunks of output of one podman logs or podman exec process
MaxChunks == 2
\* size records a client writes on the resize stream of one session
MaxResizes == 2

\* --------------------------------------------------------------- constants
primaryNamespace == "containers"
exitedNamespace == "containers-exited"

ADDED == "ADDED"
MODIFIED == "MODIFIED"
DELETED == "DELETED"

NoLabels == [k \in {} |-> <<>>]
AppLabel(v) == [k \in {<<"app">>} |-> <<v>>]

\* Container ids as podman prints them, longer than the 12 characters the
\* mapper keeps when a container has no name.
IdA == <<"a", "0", "1", "2", "3", "4", "5", "6", "7", "8", "9", "0", "1">>
IdB == <<"b", "0", "1", "2", "3", "4", "5", "6", "7", "8", "9", "0", "1">>

\* ----------------------------------------------------------- pure helpers
Range(s) == {s[i] : i \in 1..Len(s)}

FirstIndex(s, tok) == CHOOSE i \in 1..Len(s) : s[i] = tok /\ \A j \in 1..(i - 1) : s[j] # tok

\* strings.Split(s, sep) for a one-token separator
RECURSIVE Split(_, _)
Split(s, sep) ==
    IF sep \notin Range(s) THEN <<s>>
    ELSE LET i == FirstIndex(s, sep)
         IN  <<SubSeq(s, 1, i - 1)>> \o Split(SubSeq(s, i + 1, Len(s)), sep)

\* strings.TrimSpace
RECURSIVE TrimSpace(_)
TrimSpace(s) ==
    IF s = <<>> THEN s
    ELSE IF Head(s) = " " THEN TrimSpace(Tail(s))
    ELSE IF s[Len(s)] = " " THEN TrimSpace(SubSeq(s, 1, Len(s) - 1))
    ELSE s

\* ------------------------------------------------------------ pod mapper
\* the annotations podmanContainerToPod gives every pod
containerIdAnnotation == "podman.io/container-id"
imageIdAnnotation == "podman.io/image-id"

\* podmanContainerToPod, the pod name: the first name, else the id cut to 12
podName(container) ==
    IF Len(container.Names) > 0 THEN container.Names[1]
    ELSE IF Len(container.Id) >= 12 THEN SubSeq(container.Id, 1, 12)
    ELSE container.Id

\* variant: an exited container stays in the primary namespace
podNamespacePrimaryOnly(container) == primaryNamespace

\* podmanContainerToPod, the namespace of a container outside any group
podNamespace(container) ==
    IF container.Pod = "" /\ container.State = "exited" THEN exitedNamespace ELSE primaryNamespace

\* variant: the exit code is not looked at, an exited container succeeded
phaseIgnoresExitCode(container) ==
    CASE container.State = "running" -> "Running"
      [] container.State = "exited" -> "Succeeded"
      [] container.State \in {"created", "configured"} -> "Pending"
      [] OTHER -> "Unknown"

\* podmanContainerToPod, the switch on container.State: the phase ...
phase(container) ==
    CASE container.State = "running" -> "Running"
      [] container.State = "exited" -> IF container.ExitCode = 0 THEN "Succeeded" ELSE "Failed"
      [] container.State \in {"created", "configured"} -> "Pending"
      [] OTHER -> "Unknown"

\* ... the ready flag ...
ready(container) == container.State = "running"

\* variant: an exited container gets no condition
conditionsNoneWhenExited(container) ==
    CASE container.State = "running" -> <<[Type |-> "Ready", Status |-> "True"]>>
      [] container.State \in {"created", "configured"} -> <<[Type |-> "PodScheduled", Status |-> "True"]>>
      [] OTHER -> <<>>

\* ... the conditions ...
conditions(container) ==
    CASE container.State = "running" -> <<[Type |-> "Ready", Status |-> "True"]>>
      [] container.State = "exited" -> <<[Type |-> "Ready", Status |-> "False"]>>
      [] container.State \in {"created", "configured"} -> <<[Type |-> "PodScheduled", Status |-> "True"]>>
      [] OTHER -> <<>>

\* variant: the exit code of an exited container is not carried over
containerStateExitCodeDropped(container) ==
    CASE container.State = "running" -> [Kind |-> "Running", ExitCode |-> 0, Reason |-> ""]
      [] container.State = "exited" -> [Kind |-> "Terminated", ExitCode |-> 0, Reason |-> "Completed"]
      [] container.State \in {"created", "configured"} ->
           [Kind |-> "Waiting", ExitCode |-> 0, Reason |-> "ContainerCreating"]
      [] OTHER -> [Kind |-> "Waiting", ExitCode |-> 0, Reason |-> "Unknown"]

\* ... and the container state
containerState(container) ==
    CASE container.State = "running" -> [Kind |-> "Running", ExitCode |-> 0, Reason |-> ""]
      [] container.State = "exited" ->
           [Kind |-> "Terminated", ExitCode |-> container.ExitCode, Reason |-> "Completed"]
      [] container.State \in {"created", "configured"} ->
           [Kind |-> "Waiting", ExitCode |-> 0, Reason |-> "ContainerCreating"]
      [] OTHER -> [Kind |-> "Waiting", ExitCode |-> 0, Reason |-> "Unknown"]

\* podmanContainerToPod, the Pod object it builds
podObject(container, ns) ==
    [Name |-> podName(container),
     Namespace |-> ns,
     Labels |-> container.Labels,
     Annotations |-> [k \in {containerIdAnnotation, imageIdAnnotation} |->
                         IF k = containerIdAnnotation THEN container.Id ELSE container.ImageID],
     Phase |-> phase(container),
     Conditions |-> conditions(container),
     ContainerStatuses |-> << [ContainerID |-> <<"podman://">> \o container.Id,
                               Ready |-> ready(container),
                               RestartCount |-> container.Restarts,
                               State |-> containerState(container)] >>]

\* variant: a container of a runtime-level group is mapped into namespace "pods"
podmanContainerToPodGroupsAsPods(container) ==
    <<podObject(container, IF container.Pod # "" THEN "pods" ELSE podNamespace(container))>>

\* podmanContainerToPod: <<>> stands for the nil pod, <<pod>> for a pod.
podmanContainerToPod(container) ==
    IF container.Pod # "" THEN <<>>
    ELSE <<podObject(container, podNamespace(container))>>

\* matchesLabelSelector
matchesLabelSelector(pod, selector) ==
    IF selector = <<>> THEN TRUE
    ELSE LET parts == Split(selector, "=")
         IN  IF Len(parts) # 2 THEN TRUE
             ELSE LET key == TrimSpace(parts[1])
                      value == TrimSpace(parts[2])
                  IN  key \in DOMAIN pod.Labels /\ pod.Labels[key] = value

\* variant: metadata.name is not among the fields compared
matchesFieldSelectorNoName(pod, selector) ==
    IF selector = <<>> THEN TRUE
    ELSE LET parts == Split(selector, "=")
         IN  IF Len(parts) # 2 THEN TRUE
             ELSE LET field == TrimSpace(parts[1])
                      value == TrimSpace(parts[2])
                  IN  CASE field = <<"status.phase">> -> <<pod.Phase>> = value
                        [] field = <<"metadata.namespace">> -> <<pod.Namespace>> = value
                        [] OTHER -> TRUE

\* matchesFieldSelector
matchesFieldSelector(pod, selector) ==
    IF selector = <<>> THEN TRUE
    ELSE LET parts == Split(selector, "=")
         IN  IF Len(parts) # 2 THEN TRUE
             ELSE LET field == TrimSpace(parts[1])
                      value == TrimSpace(parts[2])
                  IN  CASE field = <<"status.phase">> -> <<pod.Phase>> = value
                        [] field = <<"metadata.namespace">> -> <<pod.Namespace>> = value
                        [] field = <<"metadata.name">> -> pod.Name = value
                        [] OTHER -> TRUE

\* PodStorage.List over the containers podman reports, in podman's order
RECURSIVE List(_, _, _, _)
List(cs, ns, labelSel, fieldSel) ==
    IF cs = <<>> THEN <<>>
    ELSE LET mapped == podmanContainerToPod(Head(cs))
             rest == List(Tail(cs), ns, labelSel, fieldSel)
         IN  IF mapped = <<>> THEN rest
             ELSE IF ns # "" /\ mapped[1].Namespace # ns THEN rest
             ELSE IF labelSel # <<>> /\ ~matchesLabelSelector(mapped[1], labelSel) THEN rest
             ELSE IF fieldSel # <<>> /\ ~matchesFieldSelector(mapped[1], fieldSel) THEN rest
             ELSE mapped \o rest

\* ------------------------------------------------------------ watch engine
\* podKey
podKey(ns, name) == IF ns = "" THEN name ELSE <<ns, "/">> \o name

\* getPodConditionSummary: the types of the conditions whose status is True
getPodConditionSummary(pod) ==
    LET trueAt == {i \in 1..Len(pod.Conditions) : pod.Conditions[i].Status = "True"}
        F[i \in 0..Len(pod.Conditions)] ==
            IF i = 0 THEN <<>>
            ELSE IF i \in trueAt THEN Append(F[i - 1], pod.Conditions[i].Type) ELSE F[i - 1]
    IN  F[Len(pod.Conditions)]

\* variant: any difference between the two snapshots counts as a change
podChangedDeepEqual(previous, current) == previous # current

\* variant: the restart count is not compared
podChangedNoRestartCount(previous, current) ==
    \/ previous.Phase # current.Phase
    \/ Len(previous.ContainerStatuses) # Len(current.ContainerStatuses)
    \/ \E i \in 1..Len(previous.ContainerStatuses) :
          /\ i <= Len(current.ContainerStatuses)
          /\ previous.ContainerStatuses[i].Ready # current.ContainerStatuses[i].Ready
    \/ LET sum(p) == {p.Conditions[i].Type : i \in {j \in 1..Len(p.Conditions) : p.Conditions[j].Status = "True"}}
       IN  sum(previous) # sum(current)

\* podChanged
podChanged(previous, current) ==
    \/ previous.Phase # current.Phase
    \/ Len(previous.ContainerStatuses) # Len(current.ContainerStatuses)
    \/ \E i \in 1..Len(previous.ContainerStatuses) :
          /\ i <= Len(current.ContainerStatuses)
          /\ \/ previous.ContainerStatuses[i].Ready # current.ContainerStatuses[i].Ready
             \/ previous.ContainerStatuses[i].RestartCount # current.ContainerStatuses[i].RestartCount
    \/ getPodConditionSummary(previous) # getPodConditionSummary(current)

\* the map watchPods builds from a listing: later items overwrite earlier ones
PodMap(items) ==
    LET keys == {podKey(items[i].Namespace, items[i].Name) : i \in 1..Len(items)}
    IN  [k \in keys |->
            LET last == CHOOSE i \in 1..Len(items) :
                           /\ podKey(items[i].Namespace, items[i].Name) = k
                           /\ \A j \in (i + 1)..Len(items) : podKey(items[j].Namespace, items[j].Name) # k
            IN  items[last]]

\* detectPodChanges, as the two groups the code appends in turn; Go ranges
\* over the maps in an unspecified order within each group.
changedOrNew(previousPods, currentPodMap) ==
    {[Type |-> IF k \in DOMAIN previousPods THEN MODIFIED ELSE ADDED, Key |-> k, Pod |-> currentPodMap[k]] :
        k \in {c \in DOMAIN currentPodMap :
                  c \in DOMAIN previousPods => podChanged(previousPods[c], currentPodMap[c])}}

removed(previousPods, currentPodMap) ==
    {[Type |-> DELETED, Key |-> k, Pod |-> previousPods[k]] : k \in DOMAIN previousPods \ DOMAIN currentPodMap}

Orders(S) == {s \in [1..Cardinality(S) -> S] : \A i, j \in 1..Cardinality(S) : s[i] = s[j] => i = j}

detectPodChanges(previousPods, currentPods) ==
    {a \o d : a \in Orders(changedOrNew(previousPods, PodMap(currentPods))),
              d \in Orders(removed(previousPods, PodMap(currentPods)))}


\* podListToTable row / createDeletedPodTable row / podToRawExtension: the
\* object carried by a watch event
RenderObject(isTable, type, pod) ==
    IF ~isTable THEN [Kind |-> "Pod", Pod |-> pod]
    ELSE IF type = DELETED
         THEN [Kind |-> "Table",
               Cells |-> <<pod.Name, <<0, 0>>, "Terminating", 0, <<"<none>">>>>]
         ELSE [Kind |-> "Table",
               Cells |-> <<pod.Name,
                           <<Cardinality({i \in 1..Len(pod.ContainerStatuses) : i = 1 /\ pod.ContainerStatuses[i].Ready}),
                             Len(pod.ContainerStatuses)>>,
                           pod.Phase,
                           IF Len(pod.ContainerStatuses) > 0 THEN pod.ContainerStatuses[1].RestartCount ELSE 0,
                           IF Len(pod.ContainerStatuses) > 0
                           THEN SubSeq(Tail(pod.ContainerStatuses[1].ContainerID), 1, 12) ELSE <<"<none>">>>>,
               Pod |-> pod]

WatchEvent(isTable, type, key, pod) == [Type |-> type, Key |-> key, Object |-> RenderObject(isTable, type, pod)]

\* variant: nothing is replayed, the first tick is left to report the pods
InitialEventsNone(isTable, items) == <<>>

\* the events of the initial replay, one per listed pod, in list order
InitialEvents(isTable, items) ==
    [i \in 1..Len(items) |-> WatchEvent(isTable, ADDED, podKey(items[i].Namespace, items[i].Name), items[i])]

\* the events written for one tick's changes; in table format an ADDED or
\* MODIFIED row is written only when the key indexes the current table
RECURSIVE TickEvents(_, _, _)
TickEvents(isTable, changes, podIndexKeys) ==
    IF changes = <<>> THEN <<>>
    ELSE LET c == Head(changes)
             rest == TickEvents(isTable, Tail(changes), podIndexKeys)
         IN  IF isTable /\ c.Type # DELETED /\ c.Key \notin podIndexKeys THEN rest
             ELSE <<WatchEvent(isTable, c.Type, c.Key, c.Pod)>> \o rest

\* ------------------------------------------------------- runtime listings
WatchNames == {<<"c1">>, <<"c2">>}

\* the watch requests considered: namespace, label selector, field selector
\* and whether the Accept header asks for the table format
WatchRequests ==
    {[ns |-> "", labelSelector |-> <<>>, fieldSelector |-> <<>>, table |-> FALSE],
     [ns |-> primaryNamespace, labelSelector |-> <<"app", "=", "a">>, fieldSelector |-> <<>>, table |-> TRUE],
     [ns |-> exitedNamespace, labelSelector |-> <<>>, fieldSelector |-> <<>>, table |-> FALSE],
     [ns |-> "", labelSelector |-> <<>>, fieldSelector |-> <<"status.phase", "=", "Running">>, table |-> TRUE]}

Container(id, name, state, exitCode, restarts, labels, group) ==
    [Id |-> id, Names |-> <<name>>, State |-> state, ExitCode |-> exitCode, Restarts |-> restarts,
     ImageID |-> <<"sha256:", "alpine">>, Labels |-> labels, Pod |-> group]

\* what podman ps can report about container c1: every lifecycle state, and
\* around the running and exited ones a change of restart count, of
\* container id, of labels, and membership of a runtime-level group
RecordsC1 ==
    {Container(IdA, <<"c1">>, st, 0, 0, AppLabel("a"), "") : st \in {"running", "exited", "created", "paused"}}
    \cup {Container(IdA, <<"c1">>, "exited", 1, 0, AppLabel("a"), "")}
    \cup {Container(IdA, <<"c1">>, "running", 0, r, AppLabel("a"), "") : r \in 0..MaxRestarts}
    \cup {Container(IdB, <<"c1">>, st, 0, 0, AppLabel("a"), "") : st \in {"running", "exited"}}
    \cup {Container(IdA, <<"c1">>, "running", 0, 0, NoLabels, "")}
    \cup {Container(IdA, <<"c1">>, "running", 0, 0, AppLabel("a"), "group1")}

\* ... and about container c2
RecordsC2 ==
    {Container(IdB, <<"c2">>, st, 0, 0, AppLabel("a"), "") : st \in {"running", "exited"}}

\* podman ps output: c1 and c2, each present or not
PsOutputs == {a \o b : a \in {<<>>} \cup {<<r>> : r \in RecordsC1},
                       b \in {<<>>} \cup {<<r>> : r \in RecordsC2}}

AllKeys == {podKey(ns, n) : ns \in {primaryNamespace, exitedNamespace}, n \in WatchNames}

\* ------------------------------------------------------------------ state
VARIABLES
    containers,     \* what the runtime reported at the latest listing
    wpc,            \* watch connection: "start", "watching", "closed"
    namespace, labelSelector, fieldSelector, isTableFormat,   \* request parameters
    previousPods,   \* watchPods' previousPods map
    out,            \* events written by the latest step, in order
    lastEvent,      \* per key, the type of the latest event written ("none" if none)
    lastTick,       \* outcome of the latest tick: "none", "ok", "error", "encodeError"
    suppressed      \* keys the latest tick found unchanged although the pods differ

watchVars == <<containers, wpc, namespace, labelSelector, fieldSelector, isTableFormat,
               previousPods, out, lastEvent, lastTick, suppressed>>

VARIABLES
    epc,              \* exec session: where handleSPDYExec stands
    opts,             \* ExecOptions
    protocol,         \* negotiated stream protocol ("" before the handshake)
    conn,             \* the upgraded connection: "none", "open", "closed"
    expectedStreams,  \* createStreams' expectedStreams
    receivedStreams,  \* waitForStreams' receivedStreams
    recv,             \* per stream type, how many streams waitForStreams has received
    ctx,              \* connectionContext: per stream kind the bound stream (0 is nil)
    abortReason,      \* why setup failed ("" if it did not)
    proc,             \* the podman exec process: "none", "running", "exited"
    exitCode,         \* its exit code once exited
    tasks,            \* the session's goroutines that have not finished
    wg,               \* those of them execInContainer's WaitGroup waits for
    cancelled,        \* execInContainer's context is cancelled
    flowed,           \* copy tasks that have moved data
    execResult,       \* what execInContainer returned: "none", "startError", "exit"
    statusLog         \* operations on the error stream, in order

execVars == <<epc, opts, protocol, conn, expectedStreams, receivedStreams, recv, ctx, abortReason,
              proc, exitCode, tasks, wg, cancelled, flowed, execResult, statusLog>>

VARIABLES
    qpc,             \* a List call: "input" (arguments chosen), "listed", "failed"; "got" after a Get
    qGot,            \* the arguments and the answer of the Get that followed the List
    qContainers,     \* what podman ps reports to the call
    qNamespace, qLabelSelector, qFieldSelector,   \* the arguments of List
    qMapped,         \* per reported container, what podmanContainerToPod returned
    qItems           \* the Items of the PodList returned

queryVars == <<qpc, qContainers, qNamespace, qLabelSelector, qFieldSelector, qMapped, qItems, qGot>>

VARIABLES
    rtContainers,    \* the runtime's containers: per name "none", "created", "running" or "exited"
    rtSecrets,       \* the names of the runtime's secrets
    sreq,            \* the latest request to the pod and secret handlers
    sresp,           \* its answer: the storage error (<<>> is nil) and the HTTP status code
    sasked,          \* the podman commands it ran, in order, each with its outcome
    hist             \* per pod name: "created" after a successful Create, then "deleted"
                     \* after a successful Delete, else "none"

storeVars == <<rtContainers, rtSecrets, sreq, sresp, sasked, hist>>

\* what a step of the watch leaves alone, and what a step of an exec session does
VARIABLES
    ppc,              \* log or plain exec request: where its handler stands
    preq,             \* the request
    pproc,            \* the podman process of the request: "none", "running", "exited", "killed"
    pexit,            \* its exit code once exited
    pcode,            \* the HTTP status written (0: none yet)
    pgone,            \* the request's context is cancelled, the client is gone
    ppending,         \* chunks the process has written that the handler has not read
    pbody             \* chunks written to the response

procVars == <<ppc, preq, pproc, pexit, pcode, pgone, ppending, pbody>>

VARIABLES
    xTTY,             \* goroutines of one exec session: the session has a TTY
    xBound,           \* the stream kinds bound besides the error stream
    xProc,            \* the command: "running", "exited"
    xCancelled,       \* execInContainer's context is cancelled
    xMain,            \* execInContainer and its caller: "waiting", "wgWait", "returned", "closed"
    xStdinOpen,       \* the client's stdin stream has not ended
    xTask,            \* per goroutine: "none", "running", "sending" (blocked on a channel send), "done"
    xAll,             \* the size records the client writes on the resize stream
    xStream,          \* those of them not yet decoded
    xHeld,            \* the record the decoder is sending on resizeChan
    xApplied          \* the resizes of the pseudo-terminal, in order

sessionVars == <<xTTY, xBound, xProc, xCancelled, xMain, xStdinOpen, xTask, xAll, xStream, xHeld, xApplied>>

nonWatchVars == <<execVars, queryVars, storeVars, procVars, sessionVars>>
nonExecVars == <<watchVars, queryVars, storeVars, procVars, sessionVars>>

vars == <<watchVars, execVars, queryVars, storeVars, procVars, sessionVars>>

RECURSIVE Record(_, _)
Record(le, evs) ==
    IF evs = <<>> THEN le
    ELSE Record([le EXCEPT ![Head(evs).Key] = Head(evs).Type], Tail(evs))

StreamTypes == {"error", "stdin", "stdout", "stderr", "resize"}

\* no exec session
NoExec ==
    /\ epc = "none"
    /\ opts = [Stdin |-> FALSE, Stdout |-> FALSE, Stderr |-> FALSE, TTY |-> FALSE]
    /\ protocol = ""
    /\ conn = "none"
    /\ expectedStreams = 0
    /\ receivedStreams = 0
    /\ recv = [t \in StreamTypes \cup {"bogus"} |-> 0]
    /\ ctx = [t \in StreamTypes |-> 0]
    /\ abortReason = ""
    /\ proc = "none"
    /\ exitCode = 0
    /\ tasks = {}
    /\ wg = {}
    /\ cancelled = FALSE
    /\ flowed = {}
    /\ execResult = "none"
    /\ statusLog = <<>>

\* no List call
NoQuery ==
    /\ qpc = "none"
    /\ qContainers = <<>>
    /\ qNamespace = ""
    /\ qLabelSelector = <<>>
    /\ qFieldSelector = <<>>
    /\ qMapped = <<>>
    /\ qItems = <<>>
    /\ qGot = [ns |-> "", name |-> <<>>, err |-> <<>>, pod |-> <<>>]

\* the pod names and secret names requests are about
StoreNames == {<<"p1">>, <<"p2">>}
SecretNames == {<<"s1">>}

NoRequest == [op |-> "none", urlNs |-> "", ns |-> "", name |-> <<>>, count |-> 0, keys |-> {}]
NoResponse == [called |-> FALSE, err |-> <<>>, code |-> 0, found |-> <<>>]

\* no log or plain exec request
NoProcRequest ==
    [kind |-> "none", method |-> "", found |-> FALSE, follow |-> FALSE, upgrade |-> "", command |-> FALSE,
     stdin |-> FALSE, stdout |-> FALSE, stderr |-> FALSE, tty |-> FALSE, path |-> ""]

NoProc ==
    /\ ppc = "none"
    /\ preq = NoProcRequest
    /\ pproc = "none"
    /\ pexit = 0
    /\ pcode = 0
    /\ pgone = FALSE
    /\ ppending = 0
    /\ pbody = 0

\* the goroutines of an exec session
SessionTasks == {"stdinCopy", "stdoutCopy", "stderrCopy", "pty", "ptyStdin", "ptyStdout", "resize", "resizeDecoder"}

\* no exec session whose goroutines are followed
NoSession ==
    /\ xTTY = FALSE
    /\ xBound = {}
    /\ xProc = "none"
    /\ xCancelled = FALSE
    /\ xMain = "none"
    /\ xStdinOpen = FALSE
    /\ xTask = [t \in SessionTasks |-> "none"]
    /\ xAll = <<>>
    /\ xStream = <<>>
    /\ xHeld = <<>>
    /\ xApplied = <<>>

\* no request to the pod and secret handlers
NoStore ==
    /\ rtContainers = [n \in StoreNames |-> "none"]
    /\ rtSecrets = {}
    /\ sreq = NoRequest
    /\ sresp = NoResponse
    /\ sasked = <<>>
    /\ hist = [n \in StoreNames |-> "none"]

WatchStart ==
    /\ containers = <<>>
    /\ wpc = "start"
    /\ \E req \in WatchRequests :
          /\ namespace = req.ns
          /\ labelSelector = req.labelSelector
          /\ fieldSelector = req.fieldSelector
          /\ isTableFormat = req.table
    /\ previousPods = [k \in {} |-> <<>>]
    /\ out = <<>>
    /\ lastEvent = [k \in AllKeys |-> "none"]
    /\ lastTick = "none"
    /\ suppressed = {}

WatchInit == WatchStart /\ NoExec /\ NoQuery /\ NoStore /\ NoProc /\ NoSession

\* watchPods up to the ticker: list, remember, replay as ADDED
WatchOpen ==
    /\ wpc = "start"
    /\ \E cs \in PsOutputs :
          LET items == List(cs, namespace, labelSelector, fieldSelector)
              evs == InitialEvents(isTableFormat, items)
          IN  /\ containers' = cs
              /\ previousPods' = PodMap(items)
              /\ out' = evs
              /\ lastEvent' = Record(lastEvent, evs)
    /\ wpc' = "watching"
    /\ UNCHANGED <<namespace, labelSelector, fieldSelector, isTableFormat, lastTick, suppressed>>
    /\ UNCHANGED nonWatchVars

\* watchPods: the initial listing fails
WatchOpenListError ==
    /\ wpc = "start"
    /\ wpc' = "closed"
    /\ out' = <<>>
    /\ UNCHANGED <<containers, namespace, labelSelector, fieldSelector, isTableFormat,
                   previousPods, lastEvent, lastTick, suppressed>>
    /\ UNCHANGED nonWatchVars

\* variant: the tick does not replace the previous snapshot
PollKeepsSnapshot ==
    /\ wpc = "watching"
    /\ \E cs \in PsOutputs :
          LET currentPods == List(cs, namespace, labelSelector, fieldSelector)
              cur == PodMap(currentPods)
          IN  \E changes \in detectPodChanges(previousPods, currentPods) :
                 LET evs == TickEvents(isTableFormat, changes, DOMAIN cur)
                 IN  /\ containers' = cs
                     /\ out' = evs
                     /\ lastEvent' = Record(lastEvent, evs)
    /\ lastTick' = "ok"
    /\ UNCHANGED <<wpc, namespace, labelSelector, fieldSelector, isTableFormat, previousPods, suppressed>>
    /\ UNCHANGED nonWatchVars

\* one tick whose listing succeeds and whose events are all written
Poll ==
    /\ wpc = "watching"
    /\ \E cs \in PsOutputs :
          LET currentPods == List(cs, namespace, labelSelector, fieldSelector)
              cur == PodMap(currentPods)
          IN  \E changes \in detectPodChanges(previousPods, currentPods) :
                 LET evs == TickEvents(isTableFormat, changes, DOMAIN cur)
                 IN  /\ containers' = cs
                     /\ out' = evs
                     /\ lastEvent' = Record(lastEvent, evs)
                     /\ previousPods' = cur
                     /\ suppressed' = {k \in DOMAIN cur \cap DOMAIN previousPods :
                                          ~podChanged(previousPods[k], cur[k]) /\ previousPods[k] # cur[k]}
    /\ lastTick' = "ok"
    /\ UNCHANGED <<wpc, namespace, labelSelector, fieldSelector, isTableFormat>>
    /\ UNCHANGED nonWatchVars

\* one tick whose listing succeeds but where writing an event fails: the
\* events before it were written, the handler returns
PollEncodeError ==
    /\ wpc = "watching"
    /\ \E cs \in PsOutputs :
          LET currentPods == List(cs, namespace, labelSelector, fieldSelector)
          IN  \E changes \in detectPodChanges(previousPods, currentPods) :
                 LET evs == TickEvents(isTableFormat, changes, DOMAIN PodMap(currentPods))
                 IN  \E n \in 0..(Len(evs) - 1) :
                        /\ containers' = cs
                        /\ out' = SubSeq(evs, 1, n)
                        /\ lastEvent' = Record(lastEvent, SubSeq(evs, 1, n))
    /\ wpc' = "closed"
    /\ lastTick' = "encodeError"
    /\ suppressed' = {}
    /\ UNCHANGED <<namespace, labelSelector, fieldSelector, isTableFormat, previousPods>>
    /\ UNCHANGED nonWatchVars

\* variant: a tick whose listing fails forgets the snapshot
PollListErrorDropsSnapshot ==
    /\ wpc = "watching"
    /\ lastTick' = "error"
    /\ out' = <<>>
    /\ suppressed' = {}
    /\ previousPods' = [k \in {} |-> <<>>]
    /\ UNCHANGED <<containers, wpc, namespace, labelSelector, fieldSelector, isTableFormat, lastEvent>>
    /\ UNCHANGED nonWatchVars

\* one tick whose listing fails
PollListError ==
    /\ wpc = "watching"
    /\ lastTick' = "error"
    /\ out' = <<>>
    /\ suppressed' = {}
    /\ UNCHANGED <<containers, wpc, namespace, labelSelector, fieldSelector, isTableFormat,
                   previousPods, lastEvent>>
    /\ UNCHANGED nonWatchVars

\* variant: on cancellation a DELETED event is written for every pod of
\* the snapshot
WatchCancelEmitsDeleted ==
    /\ wpc = "watching"
    /\ wpc' = "closed"
    /\ \E order \in Orders(DOMAIN previousPods) :
          LET evs == [i \in 1..Len(order) |->
                         WatchEvent(isTableFormat, DELETED, order[i], previousPods[order[i]])]
          IN  /\ out' = evs
              /\ lastEvent' = Record(lastEvent, evs)
    /\ suppressed' = {}
    /\ UNCHANGED <<containers, namespace, labelSelector, fieldSelector, isTableFormat,
                   previousPods, lastTick>>
    /\ UNCHANGED nonWatchVars

\* the request context is done
WatchCancel ==
    /\ wpc = "watching"
    /\ wpc' = "closed"
    /\ out' = <<>>
    /\ suppressed' = {}
    /\ UNCHANGED <<containers, namespace, labelSelector, fieldSelector, isTableFormat,
                   previousPods, lastEvent, lastTick>>
    /\ UNCHANGED nonWatchVars

WatchNext ==
    \/ WatchOpen
    \/ WatchOpenListError
    \/ Poll
    \/ PollEncodeError
    \/ PollListError
    \/ WatchCancel

WatchSpec == WatchInit /\ [][WatchNext]_vars


\* ------------------------------------------------------------ exec gateway
StreamProtocolV4Name == "v4.channel.k8s.io"
StreamProtocolV3Name == "v3.channel.k8s.io"
StreamProtocolV2Name == "v2.channel.k8s.io"
StreamProtocolV1Name == "channel.k8s.io"

\* handleSPDYExec's supportedStreamProtocols, latest to oldest
supportedStreamProtocols ==
    <<StreamProtocolV4Name, StreamProtocolV3Name, StreamProtocolV2Name, StreamProtocolV1Name>>

\* the protocol lists a client offers in its upgrade request
ClientOffers ==
    {<<StreamProtocolV4Name, StreamProtocolV3Name, StreamProtocolV2Name, StreamProtocolV1Name>>,
     <<StreamProtocolV3Name>>,
     <<StreamProtocolV1Name>>,
     <<"v5.channel.k8s.io">>,
     <<>>}

\* exit codes of the exec'd command; -1 is what ExitCode() gives for a
\* process ended by a signal
ExitCodes == {0, 7, 130, -1}

\* httpstream.Handshake: the first offered protocol the server supports,
\* "" when there is none
Handshake(clientProtocols, serverProtocols) ==
    LET ok == {i \in 1..Len(clientProtocols) : clientProtocols[i] \in Range(serverProtocols)}
    IN  IF ok = {} THEN ""
        ELSE clientProtocols[CHOOSE i \in ok : \A j \in ok : i <= j]

\* handlePodExec: the flags of the query, stdout by default
execOptions(stdin, stdout, stderr, tty) ==
    [Stdin |-> stdin,
     Stdout |-> IF ~stdin /\ ~stdout /\ ~stderr THEN TRUE ELSE stdout,
     Stderr |-> stderr,
     TTY |-> tty]

\* variant: the resize stream of a TTY session is not counted
expectedStreamCountNoResize(o) ==
    1 + (IF o.Stdin THEN 1 ELSE 0) + (IF o.Stdout THEN 1 ELSE 0) + (IF o.Stderr THEN 1 ELSE 0)

\* createStreams: the number of streams to wait for
expectedStreamCount(o) ==
    1 + (IF o.Stdin THEN 1 ELSE 0) + (IF o.Stdout THEN 1 ELSE 0)
      + (IF o.Stderr THEN 1 ELSE 0) + (IF o.TTY THEN 1 ELSE 0)

\* variant: the wait ends one reply early
allStreamsReceivedEarly(received, expected) == received + 1 >= expected

\* waitForStreams: the test that ends the wait
allStreamsReceived(received, expected) == received = expected

\* fmt.Sprintf("%d", n)
RECURSIVE Digits(_)
Digits(n) ==
    LET d == <<"0", "1", "2", "3", "4", "5", "6", "7", "8", "9">>
    IN  IF n < 10 THEN <<d[n + 1]>> ELSE Append(Digits(n \div 10), d[(n % 10) + 1])

Itoa(n) == IF n < 0 THEN <<"-">> \o Digits(0 - n) ELSE Digits(n)

\* (*exec.ExitError).Error()
ExitErrorString(code) == IF code = -1 THEN <<"signal: killed">> ELSE <<"exit status ">> \o Itoa(code)

\* handleSPDYExec: the status built from what execInContainer returned
ExecStatus(result, code) ==
    IF result = "exit" /\ code = 0
    THEN [Status |-> "Success", Reason |-> "", Code |-> 0, Causes |-> <<>>, Message |-> <<>>]
    ELSE IF result = "exit"
    THEN [Status |-> "Failure", Reason |-> "NonZeroExitCode", Code |-> 0,
          Causes |-> <<[Type |-> "ExitCode", Message |-> Itoa(code)]>>,
          Message |-> <<"command terminated with non-zero exit code: ">> \o ExitErrorString(code)]
    ELSE [Status |-> "Failure", Reason |-> "InternalError", Code |-> 500,
          Causes |-> <<[Type |-> "", Message |-> <<"error executing command in container: ", "start failed">>]>>,
          Message |-> <<"Internal error occurred: ", "error executing command in container: ", "start failed">>]

\* writeV4Status: the JSON of the status
writeV4Status(status) == <<[Format |-> "json", Body |-> status]>>

\* writeV1Status: the error text, nothing on success
writeV1Status(status) ==
    IF status.Status # "Success" THEN <<[Format |-> "text", Body |-> status.Message]>> ELSE <<>>

\* variant: every protocol but the oldest gets the JSON status
statusWritesJsonUnlessV1(proto, status) ==
    IF proto # StreamProtocolV1Name THEN writeV4Status(status) ELSE writeV1Status(status)

\* what the status writer hands to stream.Write, by protocol
statusWrites(proto, status) ==
    IF proto = StreamProtocolV4Name THEN writeV4Status(status) ELSE writeV1Status(status)

\* variant: the stream is closed only after a write that succeeded
writeStatusOpsCloseOnSuccess(stream, proto, status, writeOk) ==
    <<[Op |-> "call", Stream |-> stream]>>
    \o [i \in 1..Len(statusWrites(proto, status)) |->
           [Op |-> "write", Stream |-> stream, Data |-> statusWrites(proto, status)[i], Ok |-> writeOk]]
    \o (IF writeOk THEN <<[Op |-> "close", Stream |-> stream]>> ELSE <<>>)

\* createWriteStatusFunc: the operations of one call of the writer on the
\* error stream; writeOk tells whether stream.Write succeeds
writeStatusOps(stream, proto, status, writeOk) ==
    <<[Op |-> "call", Stream |-> stream]>>
    \o [i \in 1..Len(statusWrites(proto, status)) |->
           [Op |-> "write", Stream |-> stream, Data |-> statusWrites(proto, status)[i], Ok |-> writeOk]]
    \o <<[Op |-> "close", Stream |-> stream]>>

CopyTasks == {"stdinCopy", "stdoutCopy", "stderrCopy", "ptyStdin", "ptyStdout"}

\* execInContainer: the goroutines started once the command runs
execTasks(tty, c) ==
    IF tty
    THEN (IF c["stdin"] # 0 \/ c["stdout"] # 0 THEN {"pty"} ELSE {})
         \cup (IF c["stdin"] # 0 THEN {"ptyStdin"} ELSE {})
         \cup (IF c["stdout"] # 0 THEN {"ptyStdout"} ELSE {})
         \cup (IF c["resize"] # 0 THEN {"resize"} ELSE {})
    ELSE (IF c["stdin"] # 0 THEN {"stdinCopy"} ELSE {})
         \cup (IF c["stdout"] # 0 THEN {"stdoutCopy"} ELSE {})
         \cup (IF c["stderr"] # 0 THEN {"stderrCopy"} ELSE {})
         \cup (IF c["resize"] # 0 THEN {"resize"} ELSE {})

\* no watch connection
NoWatch ==
    /\ containers = <<>>
    /\ wpc = "none"
    /\ namespace = ""
    /\ labelSelector = <<>>
    /\ fieldSelector = <<>>
    /\ isTableFormat = FALSE
    /\ previousPods = [k \in {} |-> <<>>]
    /\ out = <<>>
    /\ lastEvent = [k \in AllKeys |-> "none"]
    /\ lastTick = "none"
    /\ suppressed = {}

ExecStart ==
    /\ epc = "request"
    /\ opts = [Stdin |-> FALSE, Stdout |-> FALSE, Stderr |-> FALSE, TTY |-> FALSE]
    /\ protocol = ""
    /\ conn = "none"
    /\ expectedStreams = 0
    /\ receivedStreams = 0
    /\ recv = [t \in StreamTypes \cup {"bogus"} |-> 0]
    /\ ctx = [t \in StreamTypes |-> 0]
    /\ abortReason = ""
    /\ proc = "none"
    /\ exitCode = 0
    /\ tasks = {}
    /\ wg = {}
    /\ cancelled = FALSE
    /\ flowed = {}
    /\ execResult = "none"
    /\ statusLog = <<>>

ExecInit == ExecStart /\ NoWatch /\ NoQuery /\ NoStore /\ NoProc /\ NoSession

\* handlePodExec up to the call of handleSPDYExec
PodExecRequest ==
    /\ epc = "request"
    /\ \E stdin, stdout, stderr, tty \in BOOLEAN : opts' = execOptions(stdin, stdout, stderr, tty)
    /\ epc' = "handshake"
    /\ UNCHANGED <<protocol, conn, expectedStreams, receivedStreams, recv, ctx, abortReason,
                   proc, exitCode, tasks, wg, cancelled, flowed, execResult, statusLog>>
    /\ UNCHANGED nonExecVars

\* createStreams: the protocol handshake
ProtocolHandshake ==
    /\ epc = "handshake"
    /\ \E offer \in ClientOffers :
          LET p == Handshake(offer, supportedStreamProtocols)
          IN  IF p = ""
              THEN /\ epc' = "aborted"
                   /\ abortReason' = "handshake"
                   /\ UNCHANGED protocol
              ELSE /\ epc' = "upgrade"
                   /\ protocol' = p
                   /\ UNCHANGED abortReason
    /\ UNCHANGED <<opts, conn, expectedStreams, receivedStreams, recv, ctx,
                   proc, exitCode, tasks, wg, cancelled, flowed, execResult, statusLog>>
    /\ UNCHANGED nonExecVars

\* createStreams: the connection is upgraded, the wait for streams starts
UpgradeResponse ==
    /\ epc = "upgrade"
    /\ conn' = "open"
    /\ expectedStreams' = expectedStreamCount(opts)
    /\ epc' = "binding"
    /\ UNCHANGED <<opts, protocol, receivedStreams, recv, ctx, abortReason,
                   proc, exitCode, tasks, wg, cancelled, flowed, execResult, statusLog>>
    /\ UNCHANGED nonExecVars

\* createStreams: the upgrade fails
UpgradeFails ==
    /\ epc = "upgrade"
    /\ epc' = "aborted"
    /\ abortReason' = "upgrade"
    /\ UNCHANGED <<opts, protocol, conn, expectedStreams, receivedStreams, recv, ctx,
                   proc, exitCode, tasks, wg, cancelled, flowed, execResult, statusLog>>
    /\ UNCHANGED nonExecVars

\* waitForStreams: a stream the client opened arrives; a stream of a known
\* type is bound in the context and a goroutine waits for its reply
ReceiveStream ==
    /\ epc = "binding"
    /\ recv["error"] + recv["stdin"] + recv["stdout"] + recv["stderr"] + recv["resize"] + recv["bogus"]
          < MaxStreams
    /\ \E t \in StreamTypes \cup {"bogus"} :
          /\ recv' = [recv EXCEPT ![t] = @ + 1]
          /\ ctx' = IF t \in StreamTypes THEN [ctx EXCEPT ![t] = recv[t] + 1] ELSE ctx
    /\ UNCHANGED <<epc, opts, protocol, conn, expectedStreams, receivedStreams, abortReason,
                   proc, exitCode, tasks, wg, cancelled, flowed, execResult, statusLog>>
    /\ UNCHANGED nonExecVars

\* waitForStreams: the reply of one received stream has been sent; when
\* the count is reached createStreams returns the context and, with a
\* resize stream, starts the resize decoder
ReceiveReply ==
    /\ epc = "binding"
    /\ receivedStreams < recv["error"] + recv["stdin"] + recv["stdout"] + recv["stderr"] + recv["resize"]
    /\ receivedStreams' = receivedStreams + 1
    /\ IF allStreamsReceived(receivedStreams + 1, expectedStreams)
       THEN /\ epc' = "bound"
            /\ tasks' = IF ctx["resize"] # 0 THEN {"resizeDecoder"} ELSE {}
       ELSE UNCHANGED <<epc, tasks>>
    /\ UNCHANGED <<opts, protocol, conn, expectedStreams, recv, ctx, abortReason,
                   proc, exitCode, wg, cancelled, flowed, execResult, statusLog>>
    /\ UNCHANGED nonExecVars

\* variant: the connection is left open when the timer expires
StreamTimeoutLeavesOpen ==
    /\ epc = "binding"
    /\ epc' = "aborted"
    /\ abortReason' = "timeout"
    /\ UNCHANGED <<opts, protocol, conn, expectedStreams, receivedStreams, recv, ctx,
                   proc, exitCode, tasks, wg, cancelled, flowed, execResult, statusLog>>
    /\ UNCHANGED nonExecVars

\* waitForStreams: the stream-creation timer expires; createStreams closes
\* the connection
StreamTimeout ==
    /\ epc = "binding"
    /\ epc' = "aborted"
    /\ abortReason' = "timeout"
    /\ conn' = "closed"
    /\ UNCHANGED <<opts, protocol, expectedStreams, receivedStreams, recv, ctx,
                   proc, exitCode, tasks, wg, cancelled, flowed, execResult, statusLog>>
    /\ UNCHANGED nonExecVars

\* execInContainer up to the wait for the command: PTY or pipes, start of
\* the command, start of the copy and resize goroutines
CommandStart ==
    /\ epc = "bound"
    /\ proc' = "running"
    /\ tasks' = tasks \cup execTasks(opts.TTY, ctx)
    /\ wg' = execTasks(opts.TTY, ctx) \cap {"pty", "resize"}
    /\ epc' = "running"
    /\ UNCHANGED <<opts, protocol, conn, expectedStreams, receivedStreams, recv, ctx, abortReason,
                   exitCode, cancelled, flowed, execResult, statusLog>>
    /\ UNCHANGED nonExecVars

\* execInContainer: the PTY, a pipe or the command cannot be started
CommandStartFails ==
    /\ epc = "bound"
    /\ execResult' = "startError"
    /\ epc' = "returned"
    /\ UNCHANGED <<opts, protocol, conn, expectedStreams, receivedStreams, recv, ctx, abortReason,
                   proc, exitCode, tasks, wg, cancelled, flowed, statusLog>>
    /\ UNCHANGED nonExecVars

\* a copy goroutine moves data between a stream and the command
CopyData ==
    /\ \E t \in (tasks \cap CopyTasks) \ flowed : flowed' = flowed \cup {t}
    /\ UNCHANGED <<epc, opts, protocol, conn, expectedStreams, receivedStreams, recv, ctx, abortReason,
                   proc, exitCode, tasks, wg, cancelled, execResult, statusLog>>
    /\ UNCHANGED nonExecVars

\* the command exits
CommandExit ==
    /\ proc = "running"
    /\ proc' = "exited"
    /\ \E c \in ExitCodes : exitCode' = c
    /\ UNCHANGED <<epc, opts, protocol, conn, expectedStreams, receivedStreams, recv, ctx, abortReason,
                   tasks, wg, cancelled, flowed, execResult, statusLog>>
    /\ UNCHANGED nonExecVars

\* execInContainer: cmd.Wait returns, the context is cancelled
CommandWaited ==
    /\ epc = "running"
    /\ proc = "exited"
    /\ cancelled' = TRUE
    /\ epc' = "waited"
    /\ UNCHANGED <<opts, protocol, conn, expectedStreams, receivedStreams, recv, ctx, abortReason,
                   proc, exitCode, tasks, wg, flowed, execResult, statusLog>>
    /\ UNCHANGED nonExecVars

\* a goroutine of the session finishes: the PTY supervisor and the resize
\* consumer on cancellation, a pipe copy once the command has exited, a
\* PTY copy by handing its completion to the supervisor, which finishes
\* too, the resize decoder when its stream ends with the connection
TaskExit ==
    /\ \E t \in tasks :
          \/ /\ t \in {"pty", "resize"}
             /\ cancelled
             /\ tasks' = tasks \ {t}
             /\ wg' = wg \ {t}
          \/ /\ t \in {"stdinCopy", "stdoutCopy", "stderrCopy"}
             /\ proc = "exited"
             /\ tasks' = tasks \ {t}
             /\ UNCHANGED wg
          \/ /\ t \in {"ptyStdin", "ptyStdout"}
             /\ proc = "exited"
             /\ "pty" \in tasks
             /\ tasks' = tasks \ {t, "pty"}
             /\ wg' = wg \ {"pty"}
          \/ /\ t = "resizeDecoder"
             /\ conn = "closed"
             /\ tasks' = tasks \ {t}
             /\ UNCHANGED wg
    /\ UNCHANGED <<epc, opts, protocol, conn, expectedStreams, receivedStreams, recv, ctx, abortReason,
                   proc, exitCode, cancelled, flowed, execResult, statusLog>>
    /\ UNCHANGED nonExecVars

\* execInContainer: the WaitGroup is done, the command's error is returned
ExecReturn ==
    /\ epc = "waited"
    /\ wg = {}
    /\ execResult' = "exit"
    /\ epc' = "returned"
    /\ UNCHANGED <<opts, protocol, conn, expectedStreams, receivedStreams, recv, ctx, abortReason,
                   proc, exitCode, tasks, wg, cancelled, flowed, statusLog>>
    /\ UNCHANGED nonExecVars

\* handleSPDYExec: the status is written through ctx.writeStatus, set when
\* an error stream was received
WriteStatus ==
    /\ epc = "returned"
    /\ ctx["error"] # 0
    /\ \E writeOk \in BOOLEAN :
          statusLog' = statusLog \o writeStatusOps(ctx["error"], protocol, ExecStatus(execResult, exitCode), writeOk)
    /\ epc' = "statusWritten"
    /\ UNCHANGED <<opts, protocol, conn, expectedStreams, receivedStreams, recv, ctx, abortReason,
                   proc, exitCode, tasks, wg, cancelled, flowed, execResult>>
    /\ UNCHANGED nonExecVars

\* handleSPDYExec: no error stream was received, ctx.writeStatus is nil and
\* calling it panics
WriteStatusPanics ==
    /\ epc = "returned"
    /\ ctx["error"] = 0
    /\ epc' = "panicked"
    /\ UNCHANGED <<opts, protocol, conn, expectedStreams, receivedStreams, recv, ctx, abortReason,
                   proc, exitCode, tasks, wg, cancelled, flowed, execResult, statusLog>>
    /\ UNCHANGED nonExecVars

\* handleSPDYExec returns or unwinds: the deferred ctx.conn.Close()
ConnectionClose ==
    /\ epc \in {"statusWritten", "panicked"}
    /\ conn' = "closed"
    /\ epc' = "done"
    /\ UNCHANGED <<opts, protocol, expectedStreams, receivedStreams, recv, ctx, abortReason,
                   proc, exitCode, tasks, wg, cancelled, flowed, execResult, statusLog>>
    /\ UNCHANGED nonExecVars

ExecNext ==
    \/ PodExecRequest
    \/ ProtocolHandshake
    \/ UpgradeResponse
    \/ UpgradeFails
    \/ ReceiveStream
    \/ ReceiveReply
    \/ StreamTimeout
    \/ CommandStart
    \/ CommandStartFails
    \/ CopyData
    \/ CommandExit
    \/ CommandWaited
    \/ TaskExit
    \/ ExecReturn
    \/ WriteStatus
    \/ WriteStatusPanics
    \/ ConnectionClose

ExecSpec == ExecInit /\ [][ExecNext]_vars

\* ---------------------------------------------------------------- List calls
debugAnnotation == "debug.openshift.io/source-container"

NoAnnotations == [k \in {} |-> ""]
DebugAnnotations == [k \in {debugAnnotation} |-> "original-pod"]

TwoLabels == [k \in {<<"app">>, <<"tier">>} |-> IF k = <<"app">> THEN <<"a">> ELSE <<"x">>]

\* the i-th container podman ps reports: its id and its name
QId(i) == <<<<"a", "b", "c", "d">>[i]>> \o Tail(IdA)
QName(i) == <<<<"c1">>, <<"c2">>, <<"c3">>, <<"c4">>>>[i]

QContainer(id, names, state, code, labels, annotations, group) ==
    [Id |-> id, Names |-> names, State |-> state, ExitCode |-> code, Restarts |-> 0,
     ImageID |-> <<"sha256:", "alpine">>, Labels |-> labels, Annotations |-> annotations, Pod |-> group]

QStates == {"running", "exited", "created", "configured", "configuring", "paused"}

\* every combination of state, exit code, labels, annotations and group, and
\* a container without a name
QRecordsFull(i) ==
    {QContainer(QId(i), <<QName(i)>>, st, code, labels, ann, group) :
        st \in QStates, code \in {0, 1, 137},
        labels \in {NoLabels, AppLabel("a"), AppLabel("b"), TwoLabels},
        ann \in {NoAnnotations, DebugAnnotations}, group \in {"", "group1"}}
    \cup {QContainer(QId(i), <<>>, st, 0, AppLabel("a"), NoAnnotations, "") : st \in {"running", "exited"}}

\* the containers that appear next to others in a listing
QRecordsFew(i) ==
    {QContainer(QId(i), <<QName(i)>>, "running", 0, AppLabel("a"), NoAnnotations, ""),
     QContainer(QId(i), <<QName(i)>>, "running", 0, AppLabel("b"), NoAnnotations, ""),
     QContainer(QId(i), <<QName(i)>>, "exited", 0, TwoLabels, NoAnnotations, ""),
     QContainer(QId(i), <<QName(i)>>, "exited", 1, AppLabel("a"), DebugAnnotations, ""),
     QContainer(QId(i), <<QName(i)>>, "created", 0, NoLabels, NoAnnotations, ""),
     QContainer(QId(i), <<QName(i)>>, "running", 0, AppLabel("a"), NoAnnotations, "group1")}

QListings ==
    {<<>>} \cup {<<r>> : r \in QRecordsFull(1)}
    \cup UNION {{cs \in [1..n -> UNION {QRecordsFew(i) : i \in 1..n}] : \A i \in 1..n : cs[i] \in QRecordsFew(i)} :
                   n \in 2..MaxListed}

QNamespaces == {"", primaryNamespace, exitedNamespace, "pods"}

\* label selectors as clients write them: one equality clause (also with
\* spaces around it), and the other shapes
QLabelSelectors ==
    {<<>>,
     <<"app", "=", "a">>,
     <<"tier", "=", "x">>,
     <<" ", "app", " ", "=", " ", "a", " ">>,
     <<"app", "=", "c">>,
     <<"app", "!", "=", "a">>,
     <<"app", "=", "=", "a">>,
     <<"app", "=", "a", ",", "tier", "=", "x">>,
     <<"app", "=", "a", ",", "!", "tier">>,
     <<"app", " ", "in", " ", "(", "a", ",", "b", ")">>,
     <<"app">>,
     <<"!", "app">>}

QFieldSelectors ==
    {<<>>,
     <<"status.phase", "=", "Running">>,
     <<"status.phase", "=", "Failed">>,
     <<"metadata.namespace", "=", exitedNamespace>>,
     <<"metadata.namespace", "=", primaryNamespace>>,
     <<"metadata.name", "=", "c1">>,
     <<" ", "metadata.name", " ", "=", " ", "c2">>,
     <<"spec.nodeName", "=", "node1">>,
     <<"status.phase", "!", "=", "Running">>,
     <<"status.phase", "=", "=", "Running">>}

\* the List calls considered: every namespace with every label selector,
\* with every field selector, and with both selectors at once
QQueries ==
    {[ns |-> ns, labelSelector |-> l, fieldSelector |-> <<>>] : ns \in QNamespaces, l \in QLabelSelectors}
    \cup {[ns |-> ns, labelSelector |-> <<>>, fieldSelector |-> f] : ns \in QNamespaces, f \in QFieldSelectors}
    \cup {[ns |-> ns, labelSelector |-> l, fieldSelector |-> f] :
             ns \in {"", primaryNamespace},
             l \in {<<"app", "=", "a">>, <<"app", "!", "=", "a">>},
             f \in {<<"status.phase", "=", "Running">>, <<"spec.nodeName", "=", "node1">>}}

\* getPodmanContainer over a listing: <<>> stands for the error
\* "container ... not found", <<c>> for the container found
getPodmanContainer(cs, containerID) ==
    LET hits == {i \in 1..Len(cs) :
                    cs[i].Id = containerID \/ (Len(cs[i].Names) > 0 /\ cs[i].Names[1] = containerID)}
    IN  IF hits = {} THEN <<>>
        ELSE <<cs[CHOOSE i \in hits : \A j \in hits : i <= j]>>

\* PodStorage.Get over the listing podman ps answers with: the error (<<>> is nil) and
\* the pod (<<>> is nil)
GetListed(ns, name, cs) ==
    IF ns # "" /\ ns # primaryNamespace
    THEN [ns |-> ns, name |-> name, err |-> <<"pod ", ns, "/">> \o name \o <<" ", "not found">>, pod |-> <<>>]
    ELSE LET container == getPodmanContainer(cs, name)
         IN  IF container = <<>>
             THEN [ns |-> ns, name |-> name, err |-> <<"pod ", ns, "/">> \o name \o <<" ", "not found">>,
                   pod |-> <<>>]
             ELSE [ns |-> ns, name |-> name, err |-> <<>>, pod |-> podmanContainerToPod(container[1])]

QueryStart ==
    /\ qpc = "input"
    /\ qContainers \in QListings
    /\ \E q \in QQueries :
          /\ qNamespace = q.ns
          /\ qLabelSelector = q.labelSelector
          /\ qFieldSelector = q.fieldSelector
    /\ qMapped = <<>>
    /\ qItems = <<>>
    /\ qGot = [ns |-> "", name |-> <<>>, err |-> <<>>, pod |-> <<>>]

QueryInit == QueryStart /\ NoWatch /\ NoExec /\ NoStore /\ NoProc /\ NoSession

\* PodStorage.List when podman ps answers
ListPods ==
    /\ qpc = "input"
    /\ qpc' = "listed"
    /\ qMapped' = [i \in 1..Len(qContainers) |-> podmanContainerToPod(qContainers[i])]
    /\ qItems' = List(qContainers, qNamespace, qLabelSelector, qFieldSelector)
    /\ UNCHANGED <<qContainers, qNamespace, qLabelSelector, qFieldSelector, qGot>>
    /\ UNCHANGED <<watchVars, execVars, storeVars, procVars, sessionVars>>

\* PodStorage.List when podman ps fails: no list, an error
ListPodsError ==
    /\ qpc = "input"
    /\ qpc' = "failed"
    /\ UNCHANGED <<qContainers, qNamespace, qLabelSelector, qFieldSelector, qMapped, qItems, qGot>>
    /\ UNCHANGED <<watchVars, execVars, storeVars, procVars, sessionVars>>

\* PodStorage.Get after the List, the runtime's containers being the same, for the
\* pod name of one of them or a name none of them has
GetPod ==
    /\ qpc = "listed"
    /\ qpc' = "got"
    /\ \E ns \in {"", primaryNamespace, exitedNamespace},
          name \in {podName(qContainers[i]) : i \in 1..Len(qContainers)} \cup {<<"absent">>} :
          qGot' = GetListed(ns, name, qContainers)
    /\ UNCHANGED <<qContainers, qNamespace, qLabelSelector, qFieldSelector, qMapped, qItems>>
    /\ UNCHANGED <<watchVars, execVars, storeVars, procVars, sessionVars>>

QueryNext ==
    \/ ListPods
    \/ ListPodsError
    \/ GetPod

QuerySpec == QueryInit /\ [][QueryNext]_vars

\* ------------------------------------------------- pod and secret storage
\* strings.Contains(err.Error(), phrase), an error text being the sequence of
\* its parts
Contains(err, phrase) == phrase \in Range(err)

\* the container podman ps reports for a container of the runtime
StoreContainer(name, state) ==
    QContainer(<<"id-">> \o name, <<name>>, state, 0, NoLabels, NoAnnotations, "")

StoreOrder == <<<<"p1">>, <<"p2">>>>

\* getPodmanContainers when podman ps answers
psOutput(rt) ==
    LET Present(n) == rt[n] # "none"
        present == SelectSeq(StoreOrder, Present)
    IN  [i \in 1..Len(present) |-> StoreContainer(present[i], rt[present[i]])]

\* what podman run does: "started" leaves a running container, "failed"
\* nothing, "failedCreated" a container that was created and did not start;
\* a name already in use makes it fail
RunOutcomes == {"started", "failed", "failedCreated"}

podmanRun(name, rt, run) ==
    IF rt[name] # "none" \/ run = "failed"
    THEN [err |-> <<"failed to create container: ", "exit status">>, rt |-> rt,
          asked |-> <<[cmd |-> "run", ok |-> FALSE]>>]
    ELSE IF run = "failedCreated"
    THEN [err |-> <<"failed to create container: ", "exit status">>, rt |-> [rt EXCEPT ![name] = "created"],
          asked |-> <<[cmd |-> "run", ok |-> FALSE]>>]
    ELSE [err |-> <<>>, rt |-> [rt EXCEPT ![name] = "running"], asked |-> <<[cmd |-> "run", ok |-> TRUE]>>]

\* variant: the number of containers of the pod is not checked
createPodmanContainerAnyCount(pod, rt, run) == podmanRun(pod.Name, rt, run)

\* createPodmanContainer
createPodmanContainer(pod, rt, run) ==
    IF pod.Containers # 1
    THEN [err |-> <<"only single-container pods are supported">>, rt |-> rt, asked |-> <<>>]
    ELSE podmanRun(pod.Name, rt, run)

\* variant: the result of the pre-check by name is not looked at
CreateNoPreCheck(pod, rt, ps1, run, ps2) ==
    LET made == createPodmanContainer(pod, rt, run)
    IN  [err |-> made.err, rt |-> made.rt, asked |-> <<[cmd |-> "ps", ok |-> ps1]>> \o made.asked,
         pod |-> <<>>]

\* PodStorage.Create; ps1, run and ps2 are the outcomes of the podman commands
Create(pod, rt, ps1, run, ps2) ==
    IF pod.Namespace # primaryNamespace
    THEN [err |-> <<"pods can only be created in namespace ", primaryNamespace>>, rt |-> rt,
          asked |-> <<>>, pod |-> <<>>]
    ELSE LET existing == IF ps1 THEN getPodmanContainer(psOutput(rt), pod.Name) ELSE <<>>
             asked1 == <<[cmd |-> "ps", ok |-> ps1]>>
         IN  IF existing # <<>>
             THEN [err |-> <<"pod ", pod.Namespace, "/">> \o pod.Name \o <<" ", "already exists">>, rt |-> rt,
                   asked |-> asked1, pod |-> <<>>]
             ELSE LET made == createPodmanContainer(pod, rt, run)
                      asked2 == asked1 \o made.asked
                  IN  IF made.err # <<>>
                      THEN [err |-> made.err, rt |-> made.rt, asked |-> asked2, pod |-> <<>>]
                      ELSE LET createdContainer == IF ps2 THEN getPodmanContainer(psOutput(made.rt), pod.Name)
                                                   ELSE <<>>
                               asked3 == asked2 \o <<[cmd |-> "ps", ok |-> ps2]>>
                           IN  IF createdContainer = <<>>
                               THEN [err |-> <<"failed to get created container: ", "container ">>
                                                \o pod.Name \o <<" ", "not found">>,
                                     rt |-> made.rt, asked |-> asked3, pod |-> <<>>]
                               ELSE [err |-> <<>>, rt |-> made.rt, asked |-> asked3,
                                     pod |-> podmanContainerToPod(createdContainer[1])]

\* PodStorage.Get
Get(ns, name, rt, ps) ==
    IF ns # "" /\ ns # primaryNamespace
    THEN [err |-> <<"pod ", ns, "/">> \o name \o <<" ", "not found">>, asked |-> <<>>, pod |-> <<>>]
    ELSE LET container == IF ps THEN getPodmanContainer(psOutput(rt), name) ELSE <<>>
         IN  IF container = <<>>
             THEN [err |-> <<"pod ", ns, "/">> \o name \o <<" ", "not found">>,
                   asked |-> <<[cmd |-> "ps", ok |-> ps]>>, pod |-> <<>>]
             ELSE [err |-> <<>>, asked |-> <<[cmd |-> "ps", ok |-> ps]>>,
                   pod |-> podmanContainerToPod(container[1])]

\* variant: a failed podman stop ends the Delete
DeleteStopFatal(ns, name, rt, ps, stop, rm) ==
    IF ns # "" /\ ns # primaryNamespace
    THEN [err |-> <<"pod ", ns, "/">> \o name \o <<" ", "not found">>, rt |-> rt, asked |-> <<>>]
    ELSE LET container == IF ps THEN getPodmanContainer(psOutput(rt), name) ELSE <<>>
             asked1 == <<[cmd |-> "ps", ok |-> ps]>>
         IN  IF container = <<>>
             THEN [err |-> <<"pod ", ns, "/">> \o name \o <<" ", "not found">>, rt |-> rt, asked |-> asked1]
             ELSE IF ~stop
             THEN [err |-> <<"failed to stop container ">> \o name, rt |-> rt,
                   asked |-> asked1 \o <<[cmd |-> "stop", ok |-> FALSE]>>]
             ELSE LET stopped == IF rt[name] = "running" THEN [rt EXCEPT ![name] = "exited"] ELSE rt
                      removable == rm /\ stopped[name] \in {"created", "exited"}
                      asked3 == asked1 \o <<[cmd |-> "stop", ok |-> TRUE], [cmd |-> "rm", ok |-> removable]>>
                  IN  IF removable
                      THEN [err |-> <<>>, rt |-> [stopped EXCEPT ![name] = "none"], asked |-> asked3]
                      ELSE [err |-> <<"failed to remove container ">> \o name \o <<": ", "exit status">>,
                            rt |-> stopped, asked |-> asked3]

\* PodStorage.Delete: podman stop, whose failure is only logged, then podman
\* rm, which refuses a container that is still running
Delete(ns, name, rt, ps, stop, rm) ==
    IF ns # "" /\ ns # primaryNamespace
    THEN [err |-> <<"pod ", ns, "/">> \o name \o <<" ", "not found">>, rt |-> rt, asked |-> <<>>]
    ELSE LET container == IF ps THEN getPodmanContainer(psOutput(rt), name) ELSE <<>>
             asked1 == <<[cmd |-> "ps", ok |-> ps]>>
         IN  IF container = <<>>
             THEN [err |-> <<"pod ", ns, "/">> \o name \o <<" ", "not found">>, rt |-> rt, asked |-> asked1]
             ELSE LET stopped == IF stop /\ rt[name] = "running" THEN [rt EXCEPT ![name] = "exited"] ELSE rt
                      removable == rm /\ stopped[name] \in {"created", "exited"}
                      asked3 == asked1 \o <<[cmd |-> "stop", ok |-> stop], [cmd |-> "rm", ok |-> removable]>>
                  IN  IF removable
                      THEN [err |-> <<>>, rt |-> [stopped EXCEPT ![name] = "none"], asked |-> asked3]
                      ELSE [err |-> <<"failed to remove container ">> \o name \o <<": ", "exit status">>,
                            rt |-> stopped, asked |-> asked3]

\* getPodmanSecret: whether podman secret ls answers and names the secret
getPodmanSecret(secrets, secretName, ls) == ls /\ secretName \in secrets

\* variant: only an empty secret is refused
createPodmanSecretAnyEntries(secret, secrets, create) ==
    IF Cardinality(secret.Keys) = 0
    THEN [err |-> <<"secret must contain data">>, secrets |-> secrets, asked |-> <<>>]
    ELSE IF ~create \/ secret.Name \in secrets
    THEN [err |-> <<"failed to create secret ">> \o secret.Name \o <<": ", "exit status">>,
          secrets |-> secrets, asked |-> <<[cmd |-> "secret create", ok |-> FALSE]>>]
    ELSE [err |-> <<>>, secrets |-> secrets \cup {secret.Name},
          asked |-> <<[cmd |-> "secret create", ok |-> TRUE]>>]

\* createPodmanSecret; podman secret create refuses a name in use
createPodmanSecret(secret, secrets, create) ==
    IF Cardinality(secret.Keys) = 0
    THEN [err |-> <<"secret must contain data">>, secrets |-> secrets, asked |-> <<>>]
    ELSE IF Cardinality(secret.Keys) > 1
    THEN [err |-> <<"secret must contain exactly one data entry, got ">> \o Itoa(Cardinality(secret.Keys)),
          secrets |-> secrets, asked |-> <<>>]
    ELSE IF secret.Keys # {"data"}
    THEN [err |-> <<"secret key must be 'data', got '", CHOOSE k \in secret.Keys : TRUE, "'">>,
          secrets |-> secrets, asked |-> <<>>]
    ELSE IF ~create \/ secret.Name \in secrets
    THEN [err |-> <<"failed to create secret ">> \o secret.Name \o <<": ", "exit status">>,
          secrets |-> secrets, asked |-> <<[cmd |-> "secret create", ok |-> FALSE]>>]
    ELSE [err |-> <<>>, secrets |-> secrets \cup {secret.Name},
          asked |-> <<[cmd |-> "secret create", ok |-> TRUE]>>]

\* PodStorage.CreateSecret; ls1, create and ls2 are the outcomes of the podman
\* commands
CreateSecret(secret, secrets, ls1, create, ls2) ==
    IF secret.Namespace # primaryNamespace
    THEN [err |-> <<"secrets can only be created in namespace ", primaryNamespace>>, secrets |-> secrets,
          asked |-> <<>>]
    ELSE LET asked1 == <<[cmd |-> "secret ls", ok |-> ls1]>>
         IN  IF getPodmanSecret(secrets, secret.Name, ls1)
             THEN [err |-> <<"secret ", secret.Namespace, "/">> \o secret.Name \o <<" ", "already exists">>,
                   secrets |-> secrets, asked |-> asked1]
             ELSE LET made == createPodmanSecret(secret, secrets, create)
                      asked2 == asked1 \o made.asked
                  IN  IF made.err # <<>>
                      THEN [err |-> made.err, secrets |-> made.secrets, asked |-> asked2]
                      ELSE IF ~getPodmanSecret(made.secrets, secret.Name, ls2)
                      THEN [err |-> <<"failed to get created secret: ", "secret ">>
                                       \o secret.Name \o <<" ", "not found">>,
                            secrets |-> made.secrets, asked |-> asked2 \o <<[cmd |-> "secret ls", ok |-> ls2]>>]
                      ELSE [err |-> <<>>, secrets |-> made.secrets,
                            asked |-> asked2 \o <<[cmd |-> "secret ls", ok |-> ls2]>>]

\* createPod and createSecret, the status code for what the storage returned
createStatus(err) ==
    IF err = <<>> THEN 201
    ELSE IF Contains(err, "already exists") THEN 409
    ELSE 500

\* getPod and deletePod, the status code for what the storage returned
lookupStatus(err) ==
    IF err = <<>> THEN 200
    ELSE IF Contains(err, "not found") THEN 404
    ELSE 500

\* the namespaces of request paths and of request bodies
UrlNamespaces == {"", primaryNamespace, "other"}
LookupNamespaces == {"", primaryNamespace, exitedNamespace}

\* the pod a create request carries: <<>> when the body does not decode
PodBodies ==
    {<<>>} \cup {<<[Name |-> <<"p1">>, Namespace |-> ns, Containers |-> k]>> :
                    ns \in UrlNamespaces, k \in 0..MaxContainers}

DataKeyPool == <<"data", "password", "token", "extra">>

SecretBodies ==
    {<<>>} \cup {<<[Name |-> n, Namespace |-> ns, Keys |-> keys]>> :
                    n \in SecretNames, ns \in UrlNamespaces,
                    keys \in SUBSET {DataKeyPool[i] : i \in 1..MaxDataEntries}}

\* how the podman commands of one Create turn out: the listing of the
\* pre-check, podman run, the listing after it
CreateOutcomes ==
    {<<TRUE, "started", TRUE>>, <<TRUE, "started", FALSE>>, <<TRUE, "failed", TRUE>>,
     <<TRUE, "failedCreated", TRUE>>, <<FALSE, "started", TRUE>>, <<FALSE, "failed", TRUE>>}

\* ... of one Delete: the listing, podman stop, podman rm
DeleteOutcomes ==
    {<<TRUE, TRUE, TRUE>>, <<TRUE, FALSE, TRUE>>, <<TRUE, TRUE, FALSE>>, <<FALSE, TRUE, TRUE>>}

\* ... of one CreateSecret: the listing of the pre-check, podman secret
\* create, the listing after it
CreateSecretOutcomes ==
    {<<TRUE, TRUE, TRUE>>, <<TRUE, TRUE, FALSE>>, <<TRUE, FALSE, TRUE>>, <<FALSE, TRUE, TRUE>>}

\* a create request that gets as far as a podman command: the body decodes
\* and its namespace, the one of the path when it names none, is the primary
\* one and the one of the path; for the other requests the outcomes of the
\* commands do not matter
CreateReachesRuntime(urlNs, body) ==
    /\ body # <<>>
    /\ urlNs \in {"", primaryNamespace}
    /\ (IF body[1].Namespace = "" THEN urlNs ELSE body[1].Namespace) = primaryNamespace

StoreStart ==
    /\ rtContainers \in [StoreNames -> {"none", "running", "exited"}]
    /\ rtSecrets \in SUBSET SecretNames
    /\ sreq = NoRequest
    /\ sresp = NoResponse
    /\ sasked = <<>>
    /\ hist = [n \in StoreNames |-> "none"]

StoreInit == StoreStart /\ NoWatch /\ NoExec /\ NoQuery /\ NoProc /\ NoSession

\* createPod: POST of a pod
CreatePodRequest ==
    \E urlNs \in UrlNamespaces, body \in PodBodies :
    \E o \in IF CreateReachesRuntime(urlNs, body) THEN CreateOutcomes ELSE {<<TRUE, "started", TRUE>>} :
       LET defaulted == IF body # <<>> /\ body[1].Namespace = "" THEN [body[1] EXCEPT !.Namespace = urlNs]
                        ELSE IF body # <<>> THEN body[1]
                        ELSE [Name |-> <<>>, Namespace |-> "", Containers |-> 0]
           rejected == body = <<>> \/ (urlNs # "" /\ defaulted.Namespace # urlNs)
       IN  \E r \in {Create(defaulted, rtContainers, o[1], o[2], o[3])} :
           /\ sreq' = [op |-> "createPod", urlNs |-> urlNs, ns |-> defaulted.Namespace,
                       name |-> defaulted.Name, count |-> defaulted.Containers, keys |-> {}]
           /\ IF rejected
              THEN /\ sresp' = [called |-> FALSE, err |-> <<>>, code |-> 400, found |-> <<>>]
                   /\ sasked' = <<>>
                   /\ UNCHANGED <<rtContainers, hist>>
              ELSE /\ sresp' = [called |-> TRUE, err |-> r.err, code |-> createStatus(r.err), found |-> r.pod]
                   /\ sasked' = r.asked
                   /\ rtContainers' = r.rt
                   /\ hist' = IF r.err = <<>> THEN [hist EXCEPT ![defaulted.Name] = "created"] ELSE hist
           /\ UNCHANGED rtSecrets
           /\ UNCHANGED <<watchVars, execVars, queryVars, procVars, sessionVars>>

\* getPod: GET of a pod by name
GetPodRequest ==
    \E ns \in LookupNamespaces, name \in StoreNames, ps \in BOOLEAN :
       \E r \in {Get(ns, name, rtContainers, ps)} :
           /\ sreq' = [op |-> "getPod", urlNs |-> ns, ns |-> ns, name |-> name, count |-> 0, keys |-> {}]
           /\ sresp' = [called |-> TRUE, err |-> r.err, code |-> lookupStatus(r.err), found |-> r.pod]
           /\ sasked' = r.asked
           /\ UNCHANGED <<rtContainers, rtSecrets, hist>>
           /\ UNCHANGED <<watchVars, execVars, queryVars, procVars, sessionVars>>

\* deletePod: DELETE of a pod by name
DeletePodRequest ==
    \E ns \in LookupNamespaces, name \in StoreNames :
    \E o \in IF ns \in {"", primaryNamespace} THEN DeleteOutcomes ELSE {<<TRUE, TRUE, TRUE>>} :
       \E r \in {Delete(ns, name, rtContainers, o[1], o[2], o[3])} :
           /\ sreq' = [op |-> "deletePod", urlNs |-> ns, ns |-> ns, name |-> name, count |-> 0, keys |-> {}]
           /\ sresp' = [called |-> TRUE, err |-> r.err, code |-> lookupStatus(r.err), found |-> <<>>]
           /\ sasked' = r.asked
           /\ rtContainers' = r.rt
           /\ hist' = IF r.err = <<>> /\ ns = primaryNamespace /\ hist[name] = "created"
                      THEN [hist EXCEPT ![name] = "deleted"] ELSE hist
           /\ UNCHANGED rtSecrets
           /\ UNCHANGED <<watchVars, execVars, queryVars, procVars, sessionVars>>

\* createSecret: POST of a secret
CreateSecretRequest ==
    \E urlNs \in UrlNamespaces, body \in SecretBodies :
    \E o \in IF CreateReachesRuntime(urlNs, body) THEN CreateSecretOutcomes ELSE {<<TRUE, TRUE, TRUE>>} :
       LET defaulted == IF body # <<>> /\ body[1].Namespace = "" THEN [body[1] EXCEPT !.Namespace = urlNs]
                        ELSE IF body # <<>> THEN body[1]
                        ELSE [Name |-> <<>>, Namespace |-> "", Keys |-> {}]
           rejected == body = <<>> \/ (urlNs # "" /\ defaulted.Namespace # urlNs)
       IN  \E r \in {CreateSecret(defaulted, rtSecrets, o[1], o[2], o[3])} :
           /\ sreq' = [op |-> "createSecret", urlNs |-> urlNs, ns |-> defaulted.Namespace,
                       name |-> defaulted.Name, count |-> Cardinality(defaulted.Keys),
                       keys |-> defaulted.Keys]
           /\ IF rejected
              THEN /\ sresp' = [called |-> FALSE, err |-> <<>>, code |-> 400, found |-> <<>>]
                   /\ sasked' = <<>>
                   /\ UNCHANGED rtSecrets
              ELSE /\ sresp' = [called |-> TRUE, err |-> r.err, code |-> createStatus(r.err), found |-> <<>>]
                   /\ sasked' = r.asked
                   /\ rtSecrets' = r.secrets
           /\ UNCHANGED <<rtContainers, hist>>
           /\ UNCHANGED <<watchVars, execVars, queryVars, procVars, sessionVars>>

\* the runtime: the process of a running container ends
ContainerExits ==
    \E name \in StoreNames :
       /\ rtContainers[name] = "running"
       /\ rtContainers' = [rtContainers EXCEPT ![name] = "exited"]
       /\ sreq' = [NoRequest EXCEPT !.op = "containerExits", !.name = name]
       /\ sresp' = NoResponse
       /\ sasked' = <<>>
       /\ UNCHANGED <<rtSecrets, hist>>
       /\ UNCHANGED <<watchVars, execVars, queryVars, procVars, sessionVars>>

StoreNext ==
    \/ CreatePodRequest
    \/ GetPodRequest
    \/ DeletePodRequest
    \/ CreateSecretRequest
    \/ ContainerExits

StoreSpec == StoreInit /\ [][StoreNext]_vars


\* ------------------------------------------- log and plain exec requests
\* cmd.CombinedOutput: the command runs to its end inside the call; the
\* error is the one of the start or the exec.ExitError of a non-zero exit
CombinedOutput(start, code) ==
    [err |-> ~start \/ code # 0, proc |-> IF start THEN "exited" ELSE "none", exit |-> IF start THEN code ELSE 0]

\* handlePodExec: which handler gets the request
execPath(upgrade, stdin, stdout, stderr) ==
    LET defaultedStdout == stdout \/ (~stdin /\ ~stdout /\ ~stderr)
    IN  IF upgrade # ""
        THEN (IF upgrade = "spdy" THEN "spdy" ELSE IF upgrade = "websocket" THEN "websocket" ELSE "ignored")
        ELSE IF stdin /\ (defaultedStdout \/ stderr) THEN "interactive"
        ELSE "simple"

\* values of the Upgrade header, "" without a Connection: upgrade header
UpgradeHeaders == {"", "spdy", "websocket", "h2c"}

\* the runtimes the pod of the request is looked up in
LookupRuntimes == {[n \in StoreNames |-> st] : st \in {"none", "running"}}

ProcStart ==
    /\ ppc = "request"
    /\ preq = NoProcRequest
    /\ pproc = "none"
    /\ pexit = 0
    /\ pcode = 0
    /\ pgone = FALSE
    /\ ppending = 0
    /\ pbody = 0

ProcInit == ProcStart /\ NoWatch /\ NoExec /\ NoQuery /\ NoStore /\ NoSession

\* handlePodLogs: the whole request without follow, with follow
\* streamPodmanLogs up to its read loop
LogsRequest ==
    /\ ppc = "request"
    /\ \E method \in {"GET", "POST"}, rt \in LookupRuntimes, ps \in BOOLEAN, follow \in BOOLEAN,
          start \in BOOLEAN, code \in ExitCodes :
       \E got \in {Get(primaryNamespace, <<"p1">>, rt, ps)}, ran \in {CombinedOutput(start, code)} :
          /\ preq' = [NoProcRequest EXCEPT !.kind = "logs", !.method = method, !.found = (got.err = <<>>),
                                           !.follow = follow, !.path = IF follow THEN "follow" ELSE "buffered"]
          /\ IF method # "GET"
             THEN /\ pcode' = 405
                  /\ ppc' = "done"
                  /\ UNCHANGED <<pproc, pexit>>
             ELSE IF got.err # <<>>
             THEN /\ pcode' = lookupStatus(got.err)
                  /\ ppc' = "done"
                  /\ UNCHANGED <<pproc, pexit>>
             ELSE IF follow
             THEN IF start
                  THEN /\ pcode' = 200
                       /\ pproc' = "running"
                       /\ ppc' = "logsReading"
                       /\ UNCHANGED pexit
                  ELSE /\ pcode' = 500
                       /\ ppc' = "done"
                       /\ UNCHANGED <<pproc, pexit>>
             ELSE /\ pcode' = IF ran.err THEN 500 ELSE 200
                  /\ pproc' = ran.proc
                  /\ pexit' = ran.exit
                  /\ ppc' = "done"
    /\ UNCHANGED <<pgone, ppending, pbody>>
    /\ UNCHANGED <<watchVars, execVars, queryVars, storeVars, sessionVars>>

\* streamPodmanLogs: stdout.Read returns data, which is written to the
\* response; only then the request's context is looked at, and the process
\* is killed when the client is gone
LogsRead ==
    /\ ppc = "logsReading"
    /\ ppending > 0
    /\ ppending' = ppending - 1
    /\ pbody' = pbody + 1
    /\ IF pgone
       THEN /\ pproc' = IF pproc = "running" THEN "killed" ELSE pproc
            /\ ppc' = "done"
       ELSE UNCHANGED <<pproc, ppc>>
    /\ UNCHANGED <<preq, pexit, pcode, pgone>>
    /\ UNCHANGED <<watchVars, execVars, queryVars, storeVars, sessionVars>>

\* streamPodmanLogs: stdout.Read returns the end of the output, the loop
\* is left and cmd.Wait returns
LogsEnd ==
    /\ ppc = "logsReading"
    /\ ppending = 0
    /\ pproc # "running"
    /\ ppc' = "done"
    /\ UNCHANGED <<preq, pproc, pexit, pcode, pgone, ppending, pbody>>
    /\ UNCHANGED <<watchVars, execVars, queryVars, storeVars, sessionVars>>

\* variant: the command of the request is not validated
PlainExecRequestUnvalidated ==
    /\ ppc = "request"
    /\ \E method \in {"GET", "POST"}, rt \in LookupRuntimes, ps \in BOOLEAN, command \in BOOLEAN,
          upgrade \in UpgradeHeaders, stdin, stdout, stderr, tty \in BOOLEAN,
          start \in BOOLEAN, code \in ExitCodes :
       \E got \in {Get(primaryNamespace, <<"p1">>, rt, ps)}, ran \in {CombinedOutput(start, code)},
          path \in {execPath(upgrade, stdin, stdout, stderr)} :
          /\ preq' = [kind |-> "exec", method |-> method, found |-> (got.err = <<>>), follow |-> FALSE,
                      upgrade |-> upgrade, command |-> command, stdin |-> stdin, stdout |-> stdout,
                      stderr |-> stderr, tty |-> tty, path |-> path]
          /\ IF method # "POST"
             THEN /\ pcode' = 405
                  /\ ppc' = "done"
                  /\ UNCHANGED <<pproc, pexit>>
             ELSE IF got.err # <<>>
             THEN /\ pcode' = lookupStatus(got.err)
                  /\ ppc' = "done"
                  /\ UNCHANGED <<pproc, pexit>>
             ELSE IF path = "spdy"
             THEN /\ ppc' = "spdy"
                  /\ UNCHANGED <<pcode, pproc, pexit>>
             ELSE IF path = "ignored"
             THEN /\ pcode' = 200
                  /\ ppc' = "done"
                  /\ UNCHANGED <<pproc, pexit>>
             ELSE IF path = "interactive"
             THEN IF start
                  THEN /\ pcode' = 200
                       /\ pproc' = "running"
                       /\ ppc' = "interactiveWaiting"
                       /\ UNCHANGED pexit
                  ELSE /\ pcode' = 500
                       /\ ppc' = "done"
                       /\ UNCHANGED <<pproc, pexit>>
             ELSE /\ pcode' = IF ran.err THEN 500 ELSE 200
                  /\ pproc' = ran.proc
                  /\ pexit' = ran.exit
                  /\ ppc' = "done"
    /\ UNCHANGED <<pgone, ppending, pbody>>
    /\ UNCHANGED <<watchVars, execVars, queryVars, storeVars, sessionVars>>

\* handlePodExec without the stream-multiplexed session: the whole request
\* of handleSimpleExec and handleWebSocketExec, handleInteractiveExec up to
\* cmd.Wait
PlainExecRequest ==
    /\ ppc = "request"
    /\ \E method \in {"GET", "POST"}, rt \in LookupRuntimes, ps \in BOOLEAN, command \in BOOLEAN,
          upgrade \in UpgradeHeaders, stdin, stdout, stderr, tty \in BOOLEAN,
          start \in BOOLEAN, code \in ExitCodes :
       \E got \in {Get(primaryNamespace, <<"p1">>, rt, ps)}, ran \in {CombinedOutput(start, code)},
          path \in {execPath(upgrade, stdin, stdout, stderr)} :
          /\ preq' = [kind |-> "exec", method |-> method, found |-> (got.err = <<>>), follow |-> FALSE,
                      upgrade |-> upgrade, command |-> command, stdin |-> stdin, stdout |-> stdout,
                      stderr |-> stderr, tty |-> tty, path |-> path]
          /\ IF method # "POST"
             THEN /\ pcode' = 405
                  /\ ppc' = "done"
                  /\ UNCHANGED <<pproc, pexit>>
             ELSE IF got.err # <<>>
             THEN /\ pcode' = lookupStatus(got.err)
                  /\ ppc' = "done"
                  /\ UNCHANGED <<pproc, pexit>>
             ELSE IF ~command
             THEN /\ pcode' = 400
                  /\ ppc' = "done"
                  /\ UNCHANGED <<pproc, pexit>>
             ELSE IF path = "spdy"
             THEN /\ ppc' = "spdy"
                  /\ UNCHANGED <<pcode, pproc, pexit>>
             ELSE IF path = "ignored"
             THEN /\ pcode' = 200
                  /\ ppc' = "done"
                  /\ UNCHANGED <<pproc, pexit>>
             ELSE IF path = "interactive"
             THEN IF start
                  THEN /\ pcode' = 200
                       /\ pproc' = "running"
                       /\ ppc' = "interactiveWaiting"
                       /\ UNCHANGED pexit
                  ELSE /\ pcode' = 500
                       /\ ppc' = "done"
                       /\ UNCHANGED <<pproc, pexit>>
             ELSE /\ pcode' = IF ran.err THEN 500 ELSE 200
                  /\ pproc' = ran.proc
                  /\ pexit' = ran.exit
                  /\ ppc' = "done"
    /\ UNCHANGED <<pgone, ppending, pbody>>
    /\ UNCHANGED <<watchVars, execVars, queryVars, storeVars, sessionVars>>

\* handleInteractiveExec: a goroutine copies output of the command to the
\* response
InteractiveCopy ==
    /\ preq.path = "interactive"
    /\ ppending > 0
    /\ ppending' = ppending - 1
    /\ pbody' = pbody + 1
    /\ UNCHANGED <<ppc, preq, pproc, pexit, pcode, pgone>>
    /\ UNCHANGED <<watchVars, execVars, queryVars, storeVars, sessionVars>>

\* handleInteractiveExec: cmd.Wait returns, its error is dropped
InteractiveWaited ==
    /\ ppc = "interactiveWaiting"
    /\ pproc # "running"
    /\ ppc' = "done"
    /\ UNCHANGED <<preq, pproc, pexit, pcode, pgone, ppending, pbody>>
    /\ UNCHANGED <<watchVars, execVars, queryVars, storeVars, sessionVars>>

\* the process writes a chunk of output
ProcessOutput ==
    /\ pproc = "running"
    /\ ppending + pbody < MaxChunks
    /\ ppending' = ppending + 1
    /\ UNCHANGED <<ppc, preq, pproc, pexit, pcode, pgone, pbody>>
    /\ UNCHANGED <<watchVars, execVars, queryVars, storeVars, sessionVars>>

\* the process ends by itself
ProcessExit ==
    /\ pproc = "running"
    /\ pproc' = "exited"
    /\ \E code \in ExitCodes : pexit' = code
    /\ UNCHANGED <<ppc, preq, pcode, pgone, ppending, pbody>>
    /\ UNCHANGED <<watchVars, execVars, queryVars, storeVars, sessionVars>>

\* the client goes away: the context of the request is cancelled
ClientCancel ==
    /\ ppc \in {"logsReading", "interactiveWaiting"}
    /\ ~pgone
    /\ pgone' = TRUE
    /\ UNCHANGED <<ppc, preq, pproc, pexit, pcode, ppending, pbody>>
    /\ UNCHANGED <<watchVars, execVars, queryVars, storeVars, sessionVars>>

ProcNext ==
    \/ LogsRequest
    \/ LogsRead
    \/ LogsEnd
    \/ PlainExecRequest
    \/ InteractiveCopy
    \/ InteractiveWaited
    \/ ProcessOutput
    \/ ProcessExit
    \/ ClientCancel

ProcSpec == ProcInit /\ [][ProcNext]_vars

\* the handler's own steps are taken when they can be; nothing makes the
\* process write or end, or the client go away
ProcFairSpec ==
    /\ ProcSpec
    /\ WF_vars(LogsRead)
    /\ WF_vars(LogsEnd)
    /\ WF_vars(InteractiveCopy)
    /\ WF_vars(InteractiveWaited)

\* ------------------------------------------------- goroutines of an exec session

\* the size records of one resize stream, of two terminal sizes
SizeStreams == UNION {[1..n -> {"80x24", "120x40"}] : n \in 0..MaxResizes}

\* createStreams and execInContainer: the goroutines running once the command has
\* started, for the streams bound besides the error stream
sessionTasks(tty, bound) ==
    execTasks(tty, [t \in StreamTypes |-> IF t \in bound \cup {"error"} THEN 1 ELSE 0])
    \cup (IF "resize" \in bound THEN {"resizeDecoder"} ELSE {})

\* a goroutine that has not returned
Live(t) == xTask[t] \in {"running", "sending"}

\* execInContainer has started the command and its goroutines and waits for the command
SessionStart ==
    /\ xTTY \in BOOLEAN
    /\ xBound \in SUBSET {"stdin", "stdout", "stderr", "resize"}
    /\ xProc = "running"
    /\ xCancelled = FALSE
    /\ xMain = "waiting"
    /\ xStdinOpen = ("stdin" \in xBound)
    /\ xTask = [t \in SessionTasks |-> IF t \in sessionTasks(xTTY, xBound) THEN "running" ELSE "none"]
    /\ xAll \in (IF "resize" \in xBound THEN SizeStreams ELSE {<<>>})
    /\ xStream = xAll
    /\ xHeld = <<>>
    /\ xApplied = <<>>

SessionInit == SessionStart /\ NoWatch /\ NoExec /\ NoQuery /\ NoStore /\ NoProc

\* the podman exec process ends
SessionProcessExit ==
    /\ xProc = "running"
    /\ xProc' = "exited"
    /\ UNCHANGED <<xTTY, xBound, xCancelled, xMain, xStdinOpen, xTask, xAll, xStream, xHeld, xApplied>>
    /\ UNCHANGED <<watchVars, execVars, queryVars, storeVars, procVars>>

\* the client ends its stdin stream
ClientClosesStdin ==
    /\ xStdinOpen
    /\ xStdinOpen' = FALSE
    /\ UNCHANGED <<xTTY, xBound, xProc, xCancelled, xMain, xTask, xAll, xStream, xHeld, xApplied>>
    /\ UNCHANGED <<watchVars, execVars, queryVars, storeVars, procVars>>

\* execInContainer: cmd.Wait returns and the context is cancelled
WaitReturns ==
    /\ xMain = "waiting"
    /\ xProc = "exited"
    /\ xMain' = "wgWait"
    /\ xCancelled' = TRUE
    /\ UNCHANGED <<xTTY, xBound, xProc, xStdinOpen, xTask, xAll, xStream, xHeld, xApplied>>
    /\ UNCHANGED <<watchVars, execVars, queryVars, storeVars, procVars>>

\* execInContainer: wg.Wait returns once the PTY goroutine and the resize goroutine are done
WaitGroupDone ==
    /\ xMain = "wgWait"
    /\ ~Live("pty")
    /\ ~Live("resize")
    /\ xMain' = "returned"
    /\ UNCHANGED <<xTTY, xBound, xProc, xCancelled, xStdinOpen, xTask, xAll, xStream, xHeld, xApplied>>
    /\ UNCHANGED <<watchVars, execVars, queryVars, storeVars, procVars>>

\* handleSPDYExec: the status is written, the connection is closed and the handler returns,
\* which ends the client's streams and the request's context
SessionConnClose ==
    /\ xMain = "returned"
    /\ xMain' = "closed"
    /\ xStdinOpen' = FALSE
    /\ UNCHANGED <<xTTY, xBound, xProc, xCancelled, xTask, xAll, xStream, xHeld, xApplied>>
    /\ UNCHANGED <<watchVars, execVars, queryVars, storeVars, procVars>>

\* io.Copy of a copy goroutine returns: a pipe copier returns, a PTY copier goes on to
\* send on the done channel
CopyEnds(t) ==
    /\ xTask[t] = "running"
    /\ \/ t \in {"stdinCopy", "ptyStdin"} /\ ~xStdinOpen
       \/ t \in {"stdoutCopy", "stderrCopy"} /\ xProc = "exited"
       \/ t = "ptyStdout" /\ (xProc = "exited" \/ xTask["pty"] = "done")
    /\ xTask' = [xTask EXCEPT ![t] = IF t \in {"ptyStdin", "ptyStdout"} THEN "sending" ELSE "done"]
    /\ UNCHANGED <<xTTY, xBound, xProc, xCancelled, xMain, xStdinOpen, xAll, xStream, xHeld, xApplied>>
    /\ UNCHANGED <<watchVars, execVars, queryVars, storeVars, procVars>>

\* the PTY goroutine receives from the done channel and returns, closing the PTY
PtyDone(t) ==
    /\ xTask["pty"] = "running"
    /\ t \in {"ptyStdin", "ptyStdout"}
    /\ xTask[t] = "sending"
    /\ xTask' = [xTask EXCEPT !["pty"] = "done", ![t] = "done"]
    /\ UNCHANGED <<xTTY, xBound, xProc, xCancelled, xMain, xStdinOpen, xAll, xStream, xHeld, xApplied>>
    /\ UNCHANGED <<watchVars, execVars, queryVars, storeVars, procVars>>

\* the PTY goroutine sees the cancelled context and returns, closing the PTY
PtyCancelled ==
    /\ xTask["pty"] = "running"
    /\ xCancelled
    /\ xTask' = [xTask EXCEPT !["pty"] = "done"]
    /\ UNCHANGED <<xTTY, xBound, xProc, xCancelled, xMain, xStdinOpen, xAll, xStream, xHeld, xApplied>>
    /\ UNCHANGED <<watchVars, execVars, queryVars, storeVars, procVars>>

\* handleResizeEvents: a size record is decoded and offered on resizeChan
ResizeDecode ==
    /\ xTask["resizeDecoder"] = "running"
    /\ xMain # "closed"
    /\ xStream # <<>>
    /\ xHeld' = <<Head(xStream)>>
    /\ xStream' = Tail(xStream)
    /\ xTask' = [xTask EXCEPT !["resizeDecoder"] = "sending"]
    /\ UNCHANGED <<xTTY, xBound, xProc, xCancelled, xMain, xStdinOpen, xAll, xApplied>>
    /\ UNCHANGED <<watchVars, execVars, queryVars, storeVars, procVars>>

\* handleResizeEvents: the decode fails at the end of the stream; resizeChan is closed
ResizeStreamEnds ==
    /\ xTask["resizeDecoder"] = "running"
    /\ xStream = <<>> \/ xMain = "closed"
    /\ xTask' = [xTask EXCEPT !["resizeDecoder"] = "done"]
    /\ UNCHANGED <<xTTY, xBound, xProc, xCancelled, xMain, xStdinOpen, xAll, xStream, xHeld, xApplied>>
    /\ UNCHANGED <<watchVars, execVars, queryVars, storeVars, procVars>>

\* handleResizeEvents: the request's context ends while the record is offered
ResizeDecoderCancelled ==
    /\ xTask["resizeDecoder"] = "sending"
    /\ xMain = "closed"
    /\ xHeld' = <<>>
    /\ xTask' = [xTask EXCEPT !["resizeDecoder"] = "done"]
    /\ UNCHANGED <<xTTY, xBound, xProc, xCancelled, xMain, xStdinOpen, xAll, xStream, xApplied>>
    /\ UNCHANGED <<watchVars, execVars, queryVars, storeVars, procVars>>

\* the resize of the PTY for one record: Setsize fails on a closed PTY, and the
\* window-change signal reaches the process only until cmd.Wait has reaped it
applyResize(size) ==
    [size |-> size,
     ok |-> xTask["pty"] # "done",
     signals |-> IF xTask["pty"] # "done" /\ xMain = "waiting" THEN 1 ELSE 0,
     cancelled |-> xCancelled]

\* the resize goroutine receives a record from resizeChan: the select takes this case
\* whenever a record is offered, also when the context is already cancelled
ResizeReceive ==
    /\ xTask["resize"] = "running"
    /\ xTask["resizeDecoder"] = "sending"
    /\ xApplied' = IF xTTY THEN Append(xApplied, applyResize(xHeld[1])) ELSE xApplied
    /\ xHeld' = <<>>
    /\ xTask' = [xTask EXCEPT !["resizeDecoder"] = "running"]
    /\ UNCHANGED <<xTTY, xBound, xProc, xCancelled, xMain, xStdinOpen, xAll, xStream>>
    /\ UNCHANGED <<watchVars, execVars, queryVars, storeVars, procVars>>

\* the resize goroutine finds resizeChan closed and returns
ResizeChannelClosed ==
    /\ xTask["resize"] = "running"
    /\ xTask["resizeDecoder"] = "done"
    /\ xTask' = [xTask EXCEPT !["resize"] = "done"]
    /\ UNCHANGED <<xTTY, xBound, xProc, xCancelled, xMain, xStdinOpen, xAll, xStream, xHeld, xApplied>>
    /\ UNCHANGED <<watchVars, execVars, queryVars, storeVars, procVars>>

\* the resize goroutine sees the cancelled context and returns
ResizeConsumerCancelled ==
    /\ xTask["resize"] = "running"
    /\ xCancelled
    /\ xTask' = [xTask EXCEPT !["resize"] = "done"]
    /\ UNCHANGED <<xTTY, xBound, xProc, xCancelled, xMain, xStdinOpen, xAll, xStream, xHeld, xApplied>>
    /\ UNCHANGED <<watchVars, execVars, queryVars, storeVars, procVars>>

SessionNext ==
    \/ SessionProcessExit
    \/ ClientClosesStdin
    \/ WaitReturns
    \/ WaitGroupDone
    \/ SessionConnClose
    \/ \E t \in CopyTasks : CopyEnds(t)
    \/ \E t \in CopyTasks : PtyDone(t)
    \/ PtyCancelled
    \/ ResizeDecode
    \/ ResizeStreamEnds
    \/ ResizeDecoderCancelled
    \/ ResizeReceive
    \/ ResizeChannelClosed
    \/ ResizeConsumerCancelled

SessionSpec == SessionInit /\ [][SessionNext]_vars

\* every goroutine that can take a step eventually takes it; the process and the client
\* end when they choose
SessionFairSpec ==
    /\ SessionSpec
    /\ WF_vars(WaitReturns)
    /\ WF_vars(WaitGroupDone)
    /\ WF_vars(SessionConnClose)
    /\ WF_vars(\E t \in CopyTasks : CopyEnds(t))
    /\ WF_vars(\E t \in CopyTasks : PtyDone(t))
    /\ WF_vars(PtyCancelled)
    /\ WF_vars(ResizeStreamEnds)
    /\ WF_vars(ResizeDecoderCancelled)
    /\ WF_vars(ResizeReceive)
    /\ WF_vars(ResizeChannelClosed)
    /\ WF_vars(ResizeConsumerCancelled)

\* ================================================================= claims
\* what the claims call identical significant fields: phase, number of
\* container statuses, each container's ready flag and restart count, and
\* the set of conditions
SignificantlyEqual(p, q) ==
    /\ p.Phase = q.Phase
    /\ Len(p.ContainerStatuses) = Len(q.ContainerStatuses)
    /\ \A i \in 1..Len(p.ContainerStatuses) :
          i <= Len(q.ContainerStatuses) =>
             /\ p.ContainerStatuses[i].Ready = q.ContainerStatuses[i].Ready
             /\ p.ContainerStatuses[i].RestartCount = q.ContainerStatuses[i].RestartCount
    /\ Range(p.Conditions) = Range(q.Conditions)

\* a step that is a tick whose listing succeeded and whose events were written
SuccessfulTick == wpc = "watching" /\ wpc' = "watching" /\ lastTick' = "ok"

EventKinds(evs) == {<<evs[i].Type, evs[i].Key>> : i \in 1..Len(evs)}

\* C1: a watch that opens on a listing of N pods writes exactly N ADDED
\* events, one per listed pod in list order, and does so before any tick is
\* processed and before any MODIFIED or DELETED event.
C1_InitialReplay ==
    /\ wpc = "start" => (out = <<>> /\ lastTick = "none")
    /\ (\E i \in 1..Len(out) : out[i].Type \in {MODIFIED, DELETED}) => lastTick \in {"ok", "encodeError"}
    /\ (wpc = "watching" /\ lastTick = "none") =>
          LET items == List(containers, namespace, labelSelector, fieldSelector)
          IN  /\ Len(out) = Len(items)
              /\ \A i \in 1..Len(out) :
                    /\ out[i].Type = ADDED
                    /\ out[i].Key = podKey(items[i].Namespace, items[i].Name)

C1_Witness == wpc = "watching" /\ lastTick = "none" /\ Len(out) = 2

\* C2: a pod found under the same key by two consecutive successful
\* listings with identical significant fields gets no event on that tick,
\* whatever else differs between the two snapshots.
C2_Suppression ==
    [][SuccessfulTick =>
          \A k \in DOMAIN previousPods \cap DOMAIN previousPods' :
             SignificantlyEqual(previousPods[k], previousPods'[k]) =>
                \A i \in 1..Len(out') : out'[i].Key # k]_vars

C2_Witness ==
    /\ lastTick = "ok"
    /\ \E k \in suppressed : k \in DOMAIN previousPods /\ \A i \in 1..Len(out) : out[i].Key # k

\* C3: a successful tick lists with the connection's selectors and writes
\* exactly one ADDED per key only in the current listing, one DELETED per
\* key only in the previous snapshot, one MODIFIED per key in both whose
\* significant fields differ, and nothing else.
C3_TickEvents ==
    [][SuccessfulTick =>
          LET cur == previousPods'
              expected ==
                  {<<ADDED, k>> : k \in DOMAIN cur \ DOMAIN previousPods}
                  \cup {<<DELETED, k>> : k \in DOMAIN previousPods \ DOMAIN cur}
                  \cup {<<MODIFIED, k>> : k \in {c \in DOMAIN cur \cap DOMAIN previousPods :
                                                  ~SignificantlyEqual(previousPods[c], cur[c])}}
          IN  /\ cur = PodMap(List(containers', namespace, labelSelector, fieldSelector))
              /\ EventKinds(out') = expected
              /\ Len(out') = Cardinality(expected)]_vars

C3_Witness ==
    /\ lastTick = "ok"
    /\ wpc = "watching"
    /\ {out[i].Type : i \in 1..Len(out)} = {ADDED, MODIFIED, DELETED}

\* C4: the events written for one key are well ordered: an ADDED comes
\* first or after a DELETED, a MODIFIED or DELETED comes after an ADDED or
\* a MODIFIED.
C4_EventOrder ==
    [][\A i \in 1..Len(out') :
          LET e == out'[i]
              earlier == {j \in 1..(i - 1) : out'[j].Key = e.Key}
              prior == IF earlier = {} THEN lastEvent[e.Key]
                       ELSE out'[CHOOSE j \in earlier : \A l \in earlier : l <= j].Type
          IN  /\ e.Type = ADDED => prior \in {"none", DELETED}
              /\ e.Type \in {MODIFIED, DELETED} => prior \in {ADDED, MODIFIED}]_vars

C4_Witness ==
    /\ lastTick = "ok"
    /\ \E i \in 1..Len(out) : out[i].Type = ADDED /\ out[i].Key \in DOMAIN previousPods
    /\ \E k \in AllKeys : lastEvent[k] = DELETED /\ \A i \in 1..Len(out) : out[i].Key # k

\* C5: the command runs, and data flows, only when the replies of as many
\* streams as expected have been acknowledged.
C5_BoundBeforeStart ==
    (proc # "none" \/ flowed # {} \/ tasks \cap CopyTasks # {}) =>
        (expectedStreams >= 1 /\ receivedStreams = expectedStreams)

C5_Witness == proc = "running" /\ flowed # {} /\ receivedStreams = expectedStreams

\* C6: the gateway waits for one stream plus one per requested flag among
\* stdin, stdout, stderr and tty; that is 4 for tty, stdin and stdout
\* without stderr; binding succeeds only with that many replies.
FlagCount(o) == Cardinality({f \in {"Stdin", "Stdout", "Stderr", "TTY"} : o[f]})

C7_SetupFailure ==
    abortReason # "" =>
        /\ epc = "aborted"
        /\ proc = "none"
        /\ tasks = {}
        /\ execResult = "none"
        /\ abortReason = "timeout" => conn = "closed"

C7_Witness == abortReason = "timeout" /\ conn = "closed" /\ receivedStreams >= 1 /\ proc = "none"

\* strconv.Atoi of a decimal numeral
RECURSIVE Atoi(_)
Atoi(s) ==
    LET v == [c \in {"0", "1", "2", "3", "4", "5", "6", "7", "8", "9"} |->
                 CASE c = "0" -> 0 [] c = "1" -> 1 [] c = "2" -> 2 [] c = "3" -> 3 [] c = "4" -> 4
                   [] c = "5" -> 5 [] c = "6" -> 6 [] c = "7" -> 7 [] c = "8" -> 8 [] c = "9" -> 9]
    IN  IF Head(s) = "-" THEN 0 - Atoi(Tail(s))
        ELSE IF Len(s) = 1 THEN v[s[1]]
        ELSE 10 * Atoi(SubSeq(s, 1, Len(s) - 1)) + v[s[Len(s)]]

StatusWritten == SelectSeq(statusLog, LAMBDA e : e.Op = "write")

\* C8: what the status writer writes once the command has completed: with
\* the newest protocol one JSON status (failure, NonZeroExitCode and the
\* exit code as cause for a non-zero exit, success for a clean exit,
\* internal error when the command could not be started); with an older
\* protocol the error text only for a non-zero exit and nothing for a
\* clean exit.
C8_StatusContent ==
    statusLog # <<>> =>
        LET w == StatusWritten
        IN  IF protocol = StreamProtocolV4Name
            THEN /\ Len(w) = 1
                 /\ w[1].Data.Format = "json"
                 /\ (execResult = "exit" /\ exitCode # 0) =>
                       /\ w[1].Data.Body.Status = "Failure"
                       /\ w[1].Data.Body.Reason = "NonZeroExitCode"
                       /\ \E i \in 1..Len(w[1].Data.Body.Causes) :
                             /\ w[1].Data.Body.Causes[i].Type = "ExitCode"
                             /\ Atoi(w[1].Data.Body.Causes[i].Message) = exitCode
                 /\ (execResult = "exit" /\ exitCode = 0) => w[1].Data.Body.Status = "Success"
                 /\ execResult = "startError" =>
                       /\ w[1].Data.Body.Status = "Failure"
                       /\ w[1].Data.Body.Reason = "InternalError"
            ELSE /\ (execResult = "exit" /\ exitCode # 0) =>
                       /\ Len(w) = 1
                       /\ w[1].Data.Format = "text"
                       /\ w[1].Data.Body = <<"command terminated with non-zero exit code: ">>
                                            \o ExitErrorString(exitCode)
                 /\ (execResult = "exit" /\ exitCode = 0) => w = <<>>

C8_Witness ==
    /\ protocol = StreamProtocolV4Name
    /\ execResult = "exit"
    /\ exitCode = 7
    /\ Len(StatusWritten) = 1

\* C9: in every session whose streams were bound, exactly one status has
\* gone through the status writer when the connection is closed.
C9_StatusBeforeClose ==
    (conn = "closed" /\ abortReason = "") =>
        Cardinality({i \in 1..Len(statusLog) : statusLog[i].Op = "call"}) = 1

\* C10: every call of the status writer ends by closing the error stream,
\* after the write if there is one, whether or not the write succeeded.
C10_StreamClosed ==
    \A i \in 1..Len(statusLog) :
        statusLog[i].Op = "call" =>
            \E j \in (i + 1)..Len(statusLog) :
                /\ statusLog[j].Op = "close"
                /\ statusLog[j].Stream = statusLog[i].Stream
                /\ \A l \in (i + 1)..(j - 1) : statusLog[l].Op = "write"

C10_Witness ==
    /\ \E i \in 1..Len(statusLog) : statusLog[i].Op = "write" /\ ~statusLog[i].Ok
    /\ statusLog[Len(statusLog)].Op = "close"

\* the phase the claims give a container in state st with exit code code,
\* when the states in pending are the ones they map to Pending
ClaimedPhase(st, code, pending) ==
    CASE st = "running" -> "Running"
      [] st = "exited" /\ code = 0 -> "Succeeded"
      [] st = "exited" /\ code # 0 -> "Failed"
      [] st \in pending -> "Pending"
      [] OTHER -> "Unknown"

PhaseMappingHolds(pending) ==
    qpc = "listed" =>
       \A i \in 1..Len(qContainers) :
          qMapped[i] # <<>> =>
             LET c == qContainers[i]
                 pod == qMapped[i][1]
             IN  /\ pod.Phase = ClaimedPhase(c.State, c.ExitCode, pending)
                 /\ Len(pod.ContainerStatuses) = 1
                 /\ pod.ContainerStatuses[1].Ready = (c.State = "running")

\* C11 as stated: the phase of a mapped pod follows from state and exit code
\* alone: running -> Running, ready; exited 0 -> Succeeded; exited non-zero
\* -> Failed; created or configuring -> Pending; any other state -> Unknown;
\* ready only when running.
C11_PhaseMapping_Original == PhaseMappingHolds({"created", "configuring"})

\* C11 as amended: the same, with the states mapped to Pending being created
\* and configured (podman's name of the state), configuring being one of the
\* other states, mapped to Unknown.
C11_PhaseMapping == PhaseMappingHolds({"created", "configured"})

C11_Witness ==
    /\ qpc = "listed"
    /\ \E i \in 1..Len(qContainers) :
          /\ qContainers[i].State = "configured"
          /\ qMapped[i] # <<>>
          /\ qMapped[i][1].Phase = "Pending"
          /\ ~qMapped[i][1].ContainerStatuses[1].Ready

\* C12: a container outside any runtime-level group is mapped to the primary
\* namespace when it carries the debug-origin annotation, whatever its state;
\* without the annotation it is mapped to the exited namespace when its state
\* is exited and to the primary namespace otherwise.
C12_NamespaceDerivation ==
    qpc = "listed" =>
       \A i \in 1..Len(qContainers) :
          LET c == qContainers[i]
          IN  c.Pod = "" =>
                 /\ qMapped[i] # <<>>
                 /\ qMapped[i][1].Namespace =
                       IF debugAnnotation \in DOMAIN c.Annotations THEN primaryNamespace
                       ELSE IF c.State = "exited" THEN exitedNamespace
                       ELSE primaryNamespace

\* a selector without its spaces
RECURSIVE NoSpaces(_)
NoSpaces(s) ==
    IF s = <<>> THEN <<>>
    ELSE IF Head(s) = " " THEN NoSpaces(Tail(s))
    ELSE <<Head(s)>> \o NoSpaces(Tail(s))

\* the tokens that make a selector something else than one equality clause
OperatorTokens == {"=", "!", ",", "in", "notin", "(", ")"}

\* a selector that is a single clause left=right
IsEqualityClause(sel) ==
    LET t == NoSpaces(sel)
    IN  /\ Len(t) = 3
        /\ t[2] = "="
        /\ t[1] \notin OperatorTokens
        /\ t[3] \notin OperatorTokens

\* C13: with a label selector that is a single key=value clause List returns
\* exactly the pods whose labels have labels[key] = value; with a label
\* selector of any other shape it returns what it returns with no label
\* selector.
C13_LabelSelector ==
    qpc = "listed" =>
       LET unfiltered == List(qContainers, qNamespace, <<>>, qFieldSelector)
           t == NoSpaces(qLabelSelector)
           hasLabel(pod) == <<t[1]>> \in DOMAIN pod.Labels /\ pod.Labels[<<t[1]>>] = <<t[3]>>
       IN  IF IsEqualityClause(qLabelSelector)
           THEN qItems = SelectSeq(unfiltered, hasLabel)
           ELSE qItems = unfiltered

\* C14: a field selector field=value keeps exactly the pods whose phase
\* (status.phase), namespace (metadata.namespace) or name (metadata.name)
\* equals the value; with any other field every pod is kept; List has
\* returned a list, not an error.
C14_FieldSelector ==
    (qpc = "listed" /\ IsEqualityClause(qFieldSelector)) =>
       LET unfiltered == List(qContainers, qNamespace, qLabelSelector, <<>>)
           t == NoSpaces(qFieldSelector)
           equal(pod) == CASE t[1] = "status.phase" -> pod.Phase = t[3]
                           [] t[1] = "metadata.namespace" -> pod.Namespace = t[3]
                           [] t[1] = "metadata.name" -> pod.Name = <<t[3]>>
                           [] OTHER -> TRUE
       IN  qItems = SelectSeq(unfiltered, equal)

\* a name selector has kept one of two listed pods
C14_Witness ==
    /\ qpc = "listed"
    /\ qLabelSelector = <<>>
    /\ NoSpaces(qFieldSelector) = <<"metadata.name", "=", "c2">>
    /\ Len(List(qContainers, qNamespace, <<>>, <<>>)) = 2
    /\ Len(qItems) = 1
    /\ qItems[1].Name = <<"c2">>

\* C15: a container with a non-empty parent-group identifier is not among the
\* pods List returns, whatever the namespace filter and the selectors.
C15_GroupsExcluded ==
    qpc = "listed" =>
       \A i \in 1..Len(qContainers) :
          qContainers[i].Pod # "" =>
             /\ qMapped[i] = <<>>
             /\ \A j \in 1..Len(qItems) :
                   /\ qItems[j].Annotations[containerIdAnnotation] # qContainers[i].Id
                   /\ qItems[j].Name # podName(qContainers[i])

\* a listing of a grouped container next to another one, the other one listed
C15_Witness ==
    /\ qpc = "listed"
    /\ Len(qContainers) = 2
    /\ qContainers[1].Pod # ""
    /\ qContainers[2].Pod = ""
    /\ Len(qItems) = 1

\* C16: once a pod was created with success and then deleted with success,
\* a Get of its namespace and name answers NotFound, until a Create of that
\* name succeeds again.
C16_GetAfterDelete ==
    (sreq.op = "getPod" /\ sreq.ns = primaryNamespace /\ hist[sreq.name] = "deleted") =>
       /\ Contains(sresp.err, "not found")
       /\ sresp.code = 404
       /\ sresp.found = <<>>

\* the step is a createPod that called Create for a name the runtime has
CreateOfExistingName ==
    /\ sreq'.op = "createPod"
    /\ sresp'.called
    /\ rtContainers[sreq'.name] # "none"

\* the step answered AlreadyExists, ran no podman run and left the runtime's
\* containers as they were
AnsweredAlreadyExists ==
    /\ Contains(sresp'.err, "already exists")
    /\ sresp'.code = 409
    /\ \A i \in 1..Len(sasked') : sasked'[i].cmd # "run"
    /\ rtContainers' = rtContainers

C18_InvalidCreate ==
    [][(/\ sreq'.op = "createPod"
        /\ sreq'.name # <<>>
        /\ (sreq'.ns # primaryNamespace \/ sreq'.count # 1))
       => /\ sresp'.code >= 400
          /\ sresp'.called => sresp'.err # <<>>
          /\ \A i \in 1..Len(sasked') : sasked'[i].cmd # "run"
          /\ rtContainers' = rtContainers]_vars

\* a pod of the primary namespace with two containers and a new name got
\* past the pre-check and was refused
C18_Witness ==
    /\ sreq.op = "createPod"
    /\ sreq.ns = primaryNamespace
    /\ sreq.count = 2
    /\ rtContainers[sreq.name] = "none"
    /\ sasked = <<[cmd |-> "ps", ok |-> TRUE]>>
    /\ sresp.err = <<"only single-container pods are supported">>

\* the errors of the storage that refuse the resource itself: its namespace,
\* its number of containers, its data
IsInvalidSpec(err) ==
    /\ err # <<>>
    /\ err[1] \in {"pods can only be created in namespace ",
                   "only single-container pods are supported",
                   "secrets can only be created in namespace ",
                   "secret must contain data",
                   "secret must contain exactly one data entry, got ",
                   "secret key must be 'data', got '"}

\* the step is a createSecret that called CreateSecret
CreateSecretCalled == sreq'.op = "createSecret" /\ sresp'.called

\* C19 as stated: CreateSecret of a secret with no data entry or with more
\* than one is rejected as InvalidSpec and creates no secret in the runtime;
\* a secret is created only from exactly one data entry under the key "data".
C19_SecretData_Original ==
    [][CreateSecretCalled =>
          /\ sreq'.count # 1 => (IsInvalidSpec(sresp'.err) /\ rtSecrets' = rtSecrets)
          /\ rtSecrets' # rtSecrets => sreq'.keys = {"data"}]_vars

\* C19 as amended: such a secret is rejected, as AlreadyExists when it is of
\* the primary namespace and the listing of the pre-check has a secret of its
\* name, as InvalidSpec otherwise, and creates no secret; a secret is created
\* only from exactly one data entry under the key "data".
C19_SecretData ==
    [][CreateSecretCalled =>
          /\ sreq'.count # 1 =>
                /\ rtSecrets' = rtSecrets
                /\ IF /\ sreq'.ns = primaryNamespace
                      /\ sasked'[1] = [cmd |-> "secret ls", ok |-> TRUE]
                      /\ sreq'.name \in rtSecrets
                   THEN Contains(sresp'.err, "already exists")
                   ELSE IsInvalidSpec(sresp'.err)
          /\ rtSecrets' # rtSecrets => sreq'.keys = {"data"}]_vars

\* a secret with two data entries and a new name was refused for its data
C19_Witness ==
    /\ sreq.op = "createSecret"
    /\ sreq.ns = primaryNamespace
    /\ sreq.keys = {"data", "password"}
    /\ sreq.name \notin rtSecrets
    /\ sresp.err = <<"secret must contain exactly one data entry, got ", "2">>
    /\ sasked = <<[cmd |-> "secret ls", ok |-> TRUE]>>

\* C20: a create request that the storage refuses as InvalidSpec (container
\* count, namespace, secret data) is answered with status 400, not 500.
C20_InvalidSpecStatus ==
    (sreq.op \in {"createPod", "createSecret"} /\ sresp.called /\ IsInvalidSpec(sresp.err)) =>
       sresp.code = 400

\* C21: when the container listing of a pod Get or Delete fails, the request
\* is answered 500 and not 404
C21_RuntimeFailure ==
    (sreq.op \in {"getPod", "deletePod"} /\ sasked # <<>> /\ sasked[1].cmd = "ps" /\ ~sasked[1].ok) =>
       sresp.code = 500

\* C22: on every exec path a command that was started and exited with a
\* non-zero code is not answered with an HTTP error status
C22_NonZeroExit ==
    (preq.kind = "exec" /\ pproc = "exited" /\ pexit # 0) => pcode < 400

\* C25: when the client of a follow-mode log request or of an exec session
\* goes away while the process runs, the process eventually stops running
C25_CancelTerminates == (pgone /\ pproc = "running") ~> (pproc # "running")

\* a Delete whose lookup found the container of the pod
DeleteOfFound ==
    /\ sreq'.op = "deletePod"
    /\ sreq'.ns \in {"", primaryNamespace}
    /\ rtContainers[sreq'.name] # "none"
    /\ sasked' # <<>>
    /\ sasked'[1].ok

\* C23: Delete of an existing pod asks the runtime to stop the container
\* and then to remove it, whether or not the stop failed; it returns an
\* error when the remove failed and succeeds only when the remove succeeded
C23_StopThenRemove ==
    [][DeleteOfFound =>
          /\ Len(sasked') = 3
          /\ sasked'[2].cmd = "stop"
          /\ sasked'[3].cmd = "rm"
          /\ (sresp'.err = <<>>) <=> sasked'[3].ok
          /\ sresp'.err = <<>> => rtContainers'[sreq'.name] = "none"
          /\ sresp'.err # <<>> => Contains(sresp'.err, "failed to remove container ")]_vars

C23_Witness ==
    /\ sreq.op = "deletePod"
    /\ Len(sasked) = 3
    /\ ~sasked[2].ok
    /\ sasked[3].ok
    /\ sresp.err = <<>>
    /\ rtContainers[sreq.name] = "none"

\* C24: the annotations of every pod returned by List are the annotations
\* of its container together with the two runtime-identity annotations
C24_Annotations ==
    qpc = "listed" =>
       \A i \in 1..Len(qContainers) :
          qMapped[i] # <<>> =>
             LET given == qContainers[i].Annotations
                 got == qMapped[i][1].Annotations
             IN  /\ DOMAIN got = DOMAIN given \cup {containerIdAnnotation, imageIdAnnotation}
                 /\ \A k \in DOMAIN given : got[k] = given[k]
                 /\ got[containerIdAnnotation] = qContainers[i].Id
                 /\ got[imageIdAnnotation] = qContainers[i].ImageID

\* the goroutines execInContainer starts for the directions of a session
DirectionTasks == {"stdinCopy", "stdoutCopy", "stderrCopy", "pty", "ptyStdin", "ptyStdout", "resize"}

\* C26: once execInContainer has returned, and so when the status is written
\* and the connection closed, no stream-direction task of the session is
\* still at work
C26_TeardownWaits ==
    epc \in {"returned", "statusWritten", "panicked", "done"} => tasks \cap DirectionTasks = {}

\* C28: without TTY the command gets a pipe bridged to a stream only for
\* the stream kinds the exec options ask for
C28_OnlyRequestedPipes ==
    [][(epc = "bound" /\ epc' = "running" /\ ~opts.TTY) =>
          /\ "stdinCopy" \in tasks' => opts.Stdin
          /\ "stdoutCopy" \in tasks' => opts.Stdout
          /\ "stderrCopy" \in tasks' => opts.Stderr]_vars

\* C27: a tick whose listing fails writes no event, leaves the snapshot as
\* it is and leaves the watch open; the successful tick after it writes the
\* events of the difference between that snapshot and its own listing
C27_FailedTick ==
    [][/\ (wpc = "watching" /\ lastTick # "error" /\ lastTick' = "error") =>
             /\ out' = <<>>
             /\ previousPods' = previousPods
             /\ lastEvent' = lastEvent
             /\ wpc' = "watching"
       /\ (lastTick = "error" /\ SuccessfulTick) =>
             LET cur == previousPods'
             IN  /\ \A k \in DOMAIN cur \ DOMAIN previousPods : <<ADDED, k>> \in EventKinds(out')
                 /\ \A k \in DOMAIN previousPods \ DOMAIN cur : <<DELETED, k>> \in EventKinds(out')
                 /\ \A i \in 1..Len(out') :
                       /\ out'[i].Type = ADDED => out'[i].Key \in DOMAIN cur \ DOMAIN previousPods
                       /\ out'[i].Type = DELETED => out'[i].Key \in DOMAIN previousPods \ DOMAIN cur
                       /\ out'[i].Type = MODIFIED =>
                             /\ out'[i].Key \in DOMAIN cur \cap DOMAIN previousPods
                             /\ ~SignificantlyEqual(previousPods[out'[i].Key], cur[out'[i].Key])]_vars

C27_Witness ==
    /\ wpc = "watching"
    /\ lastTick = "error"
    /\ out = <<>>
    /\ DOMAIN previousPods # {}

\* the pods the mapper made of the listed containers
MappedPods == {qMapped[i][1] : i \in {j \in 1..Len(qMapped) : qMapped[j] # <<>>}}

\* C29 as stated: every mapped pod carries exactly one condition, a
\* readiness or a scheduling condition, whatever its phase
C29_OneCondition_Original ==
    qpc = "listed" =>
       \A p \in MappedPods :
          /\ Len(p.Conditions) = 1
          /\ p.Conditions[1].Type \in {"Ready", "PodScheduled"}

\* C29 amended: a mapped pod of phase Running, Succeeded or Failed carries
\* exactly one condition, the readiness condition, true for Running only; a
\* pod of phase Pending carries exactly one, the scheduling condition; a pod
\* of phase Unknown carries none
C29_OneCondition ==
    qpc = "listed" =>
       \A p \in MappedPods :
          /\ p.Phase \in {"Running", "Succeeded", "Failed", "Pending", "Unknown"}
          /\ p.Phase = "Running" => p.Conditions = <<[Type |-> "Ready", Status |-> "True"]>>
          /\ p.Phase \in {"Succeeded", "Failed"} => p.Conditions = <<[Type |-> "Ready", Status |-> "False"]>>
          /\ p.Phase = "Pending" => p.Conditions = <<[Type |-> "PodScheduled", Status |-> "True"]>>
          /\ p.Phase = "Unknown" => p.Conditions = <<>>

C29_Witness ==
    /\ qpc = "listed"
    /\ \E i \in 1..Len(qContainers) :
          /\ qContainers[i].State = "paused"
          /\ qMapped[i] # <<>>
          /\ qMapped[i][1].Phase = "Unknown"
          /\ qMapped[i][1].Conditions = <<>>

\* C30: in every pod of a listing the phase and the state of the single
\* container status agree: Running with Running, Terminated with Succeeded
\* and Failed, the exit code being 0 exactly for Succeeded, Waiting with
\* Pending and Unknown; the ready flag is set exactly for Running
C30_PhaseStateAgree ==
    qpc = "listed" =>
       \A p \in MappedPods \cup Range(qItems) :
          /\ Len(p.ContainerStatuses) = 1
          /\ LET st == p.ContainerStatuses[1]
             IN  /\ st.State.Kind \in {"Running", "Terminated", "Waiting"}
                 /\ st.State.Kind = "Running" <=> p.Phase = "Running"
                 /\ st.State.Kind = "Terminated" <=> p.Phase \in {"Succeeded", "Failed"}
                 /\ st.State.Kind = "Terminated" => (st.State.ExitCode = 0 <=> p.Phase = "Succeeded")
                 /\ st.State.Kind = "Waiting" <=> p.Phase \in {"Pending", "Unknown"}
                 /\ st.Ready <=> p.Phase = "Running"

C30_Witness ==
    /\ qpc = "listed"
    /\ \E p \in Range(qItems) :
          /\ p.Phase = "Failed"
          /\ p.ContainerStatuses[1].State.Kind = "Terminated"
          /\ p.ContainerStatuses[1].State.ExitCode # 0
    /\ \E p \in Range(qItems) : p.Phase = "Running" /\ p.ContainerStatuses[1].Ready

\* C31: the step on which the watch observes the cancellation of its
\* request closes the watch and writes no event, and a closed watch writes
\* nothing any more
C31_CancelSilent ==
    [][/\ (wpc = "watching" /\ wpc' = "closed" /\ lastTick' # "encodeError") =>
             (out' = <<>> /\ lastEvent' = lastEvent)
       /\ wpc = "closed" => (wpc' = "closed" /\ lastEvent' = lastEvent)]_vars

C31_Witness ==
    /\ wpc = "closed"
    /\ lastTick = "ok"
    /\ DOMAIN previousPods # {}
    /\ out = <<>>

\* C32: once the binding of the streams has completed, a stream is bound
\* for the error kind, so that the status writer is set, and for each kind
\* the exec options ask for
C32_BoundKinds ==
    epc = "bound" =>
       /\ ctx["error"] # 0
       /\ opts.Stdin => ctx["stdin"] # 0
       /\ opts.Stdout => ctx["stdout"] # 0
       /\ opts.Stderr => ctx["stderr"] # 0
       /\ opts.TTY => ctx["resize"] # 0

\* C33: in a session with a TTY the resizes are applied in the order the records were
\* received, every successful one is followed by one window-change signal and none is
\* applied once the session's context is cancelled; without a TTY none is applied
C33_ResizeOrdered ==
    /\ Len(xApplied) <= Len(xAll)
    /\ \A i \in 1..Len(xApplied) :
          /\ i <= Len(xAll) => xApplied[i].size = xAll[i]
          /\ xApplied[i].ok => xApplied[i].signals = 1
          /\ ~xApplied[i].cancelled
    /\ ~xTTY => xApplied = <<>>

\* C34: once the command of a session has exited, every goroutine of the session
\* eventually returns; none stays blocked on a channel
C34_AllTerminate ==
    (xProc = "exited") ~> (\A t \in SessionTasks : ~Live(t))

\* C35: a logs or exec request for a pod that is not found, and an exec request
\* without a command, are answered with a status of at least 400 and start no
\* podman logs or podman exec process
C35_RejectedUnspawned ==
    (/\ preq.kind \in {"logs", "exec"}
     /\ ~preq.found \/ (preq.kind = "exec" /\ ~preq.command)) =>
        (ppc = "done" /\ pcode >= 400 /\ pproc = "none")

C35_Witness ==
    /\ preq.kind = "exec" /\ preq.method = "POST" /\ preq.found /\ ~preq.command
    /\ ppc = "done" /\ pcode = 400 /\ pproc = "none"

\* C36: every pod that List returned is found by Get under its namespace and name, the
\* runtime's containers being the same, and Get returns a pod of that name and namespace
C36_ListedIsGettable ==
    (/\ qpc = "got"
     /\ \E i \in 1..Len(qItems) : qItems[i].Namespace = qGot.ns /\ qItems[i].Name = qGot.name) =>
        /\ qGot.err = <<>>
        /\ qGot.pod # <<>>
        /\ qGot.pod[1].Name = qGot.name
        /\ qGot.pod[1].Namespace = qGot.ns

\* C37: Get returns a pod and no error, or an error; never no pod and no error
C37_PodOrError ==
    qpc = "got" => (qGot.err # <<>> \/ qGot.pod # <<>>)

\* C38: while the watch is open, after the initial replay and after every tick, the
\* previous-snapshot map holds exactly the pods of the latest successful listing under
\* their namespace/name keys, and the keys whose latest event is ADDED or MODIFIED are
\* the keys of the snapshot
C38_SnapshotIsListing ==
    wpc = "watching" =>
       /\ previousPods = PodMap(List(containers, namespace, labelSelector, fieldSelector))
       /\ {k \in AllKeys : lastEvent[k] \in {ADDED, MODIFIED}} = DOMAIN previousPods

C38_Witness ==
    /\ wpc = "watching" /\ lastTick = "ok"
    /\ \E e \in Range(out) : e.Type = DELETED
    /\ \E e \in Range(out) : e.Type = ADDED
    /\ Cardinality(DOMAIN previousPods) = 2

\* the listing cs reports the container named n in the given state, outside any group
ReportedAs(cs, n, state) ==
    \E i \in 1..Len(cs) : cs[i].Names = <<n>> /\ cs[i].State = state /\ cs[i].Pod = ""

\* the type and key of the events among evs that are about the pods named n
EventsAbout(evs, n) ==
    {<<evs[i].Type, evs[i].Key>> : i \in {j \in 1..Len(evs) : evs[j].Key \in {podKey(primaryNamespace, n),
                                                                             podKey(exitedNamespace, n)}}}

\* C39: on the tick that finds a listed running container exited, a watch without
\* namespace filter and selectors writes an ADDED for its key in the exited namespace and
\* a DELETED for its key in the primary namespace and no MODIFIED; a watch of the primary
\* namespace writes the DELETED only
C39_ExitMovesNamespace ==
    [][\A n \in WatchNames :
          (/\ wpc = "watching" /\ wpc' = "watching" /\ lastTick' = "ok"
           /\ ReportedAs(containers, n, "running")
           /\ ReportedAs(containers', n, "exited")
           /\ podKey(primaryNamespace, n) \in DOMAIN previousPods) =>
             /\ (namespace = "" /\ labelSelector = <<>> /\ fieldSelector = <<>>) =>
                   EventsAbout(out', n) = {<<ADDED, podKey(exitedNamespace, n)>>,
                                           <<DELETED, podKey(primaryNamespace, n)>>}
             /\ namespace = primaryNamespace =>
                   EventsAbout(out', n) = {<<DELETED, podKey(primaryNamespace, n)>>}
             /\ Cardinality({i \in 1..Len(out') : out'[i].Key \in {podKey(primaryNamespace, n),
                                                                    podKey(exitedNamespace, n)}})
                   = Cardinality(EventsAbout(out', n))]_vars

C39_Witness ==
    /\ wpc = "watching" /\ lastTick = "ok"
    /\ namespace = "" /\ labelSelector = <<>> /\ fieldSelector = <<>>
    /\ ReportedAs(containers, <<"c1">>, "exited")
    /\ EventsAbout(out, <<"c1">>) = {<<ADDED, podKey(exitedNamespace, <<"c1">>)>>,
                                     <<DELETED, podKey(primaryNamespace, <<"c1">>)>>}

====
